---- MODULE Spec2Model ----
(***************************************************************************)
(* IndustrialScanner-Lite: the DNP3 and S7Comm payload classifiers, the    *)
(* per-capture fold analyze_pcap, the Modbus probe probe_host, the index   *)
(* scripts over report folders, expand_targets, and the batches (the       *)
(* capture runners and scan_targets).                                      *)
(*                                                                         *)
(* Payloads are byte strings: sequences of integers 0..255.  A Python      *)
(* `tok in payload` on bytes is a substring search, `n in payload` with an *)
(* integer n is a byte membership test.                                    *)
(***************************************************************************)
EXTENDS Integers, Sequences, FiniteSets, TLC

(***************************************************************************)
(* Bounds of the model.                                                    *)
(***************************************************************************)
MaxDnpChunks == 3
MaxS7Chunks == 2

(***************************************************************************)
(* State.                                                                  *)
(*   cl_*     one call of a classifier: the packet, the function called,   *)
(*            its return value                                             *)
(*   result, client, calls, outcome, pr_pc                                 *)
(*            one run of probe_host: the result dictionary, the local      *)
(*            client, the calls made on the transport so far, how each     *)
(*            read ended, the position in the function                     *)
(*   protocol, packets, idx, summary, results, report, an_pc               *)
(*            one run of analyze_pcap (DNP3 or S7Comm): the frames rdpcap  *)
(*            returned, the loop index, the accumulators, the summary      *)
(*            returned                                                     *)
(*   ix_fn, ix_dir, folder, ix_i, ix_pc, totals, reports, warnings,        *)
(*   skipped, chart, table                                                 *)
(*            one run of collect_summary or of an index script: the        *)
(*            function, whether the report folder exists, its listing,     *)
(*            the loop index, the totals of collect_summary, the list of   *)
(*            load_reports, the warnings printed, the files whose try      *)
(*            block raised, the series and rows of build_index             *)
(*   tg_input, tg_arg, tg_files, tg_out, tg_pc                             *)
(*            one call of expand_targets: the argument passed, the local   *)
(*            arg, the files on disk, the list returned, the position      *)
(*   ba_runner, ba_dir, ba_units, ba_queue, ba_i, ba_pc, ba_attempts,      *)
(*   ba_written, ba_log, ba_inflight, aggregate                            *)
(*            one batch: the function, whether the capture folder exists,  *)
(*            the folder listing or the target list, the capture files     *)
(*            selected, the loop index, how often each unit was started,   *)
(*            the report files written, the batch-level log, the calls of  *)
(*            probe_host that have not returned yet, the aggregate of      *)
(*            scan_targets                                                 *)
(***************************************************************************)
VARIABLES cl_pkt, cl_call, cl_ret, cl_pc,
          result, client, calls, outcome, pr_pc,
          protocol, packets, idx, summary, results, report, an_pc,
          ix_fn, ix_dir, folder, ix_i, ix_pc, totals, reports, warnings,
          skipped, chart, table,
          tg_input, tg_arg, tg_files, tg_out, tg_pc,
          ba_runner, ba_dir, ba_units, ba_queue, ba_i, ba_pc, ba_attempts,
          ba_written, ba_log, ba_inflight, aggregate

clvars == <<cl_pkt, cl_call, cl_ret, cl_pc>>
prvars == <<result, client, calls, outcome, pr_pc>>
anvars == <<protocol, packets, idx, summary, results, report, an_pc>>
ixvars == <<ix_fn, ix_dir, folder, ix_i, ix_pc, totals, reports, warnings,
            skipped, chart, table>>
tgvars == <<tg_input, tg_arg, tg_files, tg_out, tg_pc>>
bavars == <<ba_runner, ba_dir, ba_units, ba_queue, ba_i, ba_pc, ba_attempts,
            ba_written, ba_log, ba_inflight, aggregate>>
vars == <<clvars, prvars, anvars, ixvars, tgvars, bavars>>

(***************************************************************************)
(* Python values.                                                          *)
(***************************************************************************)
None == "None"

Range(s) == {s[i] : i \in DOMAIN s}

Zeros(n) == [i \in 1..n |-> 0]

\* bytes.__contains__(bytes): substring search
Contains(tok, payload) ==
    \E i \in 1..(Len(payload) - Len(tok) + 1) :
        \A j \in 1..Len(tok) : payload[i + j - 1] = tok[j]

\* bytes.__contains__(int): some byte has that value
HasByte(b, payload) == \E i \in 1..Len(payload) : payload[i] = b

\* the latin-1 code points the token lists use
Latin1 ==
    (49 :> "1") @@
    (65 :> "A") @@ (66 :> "B") @@ (67 :> "C") @@ (68 :> "D") @@ (69 :> "E") @@
    (70 :> "F") @@ (73 :> "I") @@ (76 :> "L") @@ (78 :> "N") @@ (79 :> "O") @@ (80 :> "P") @@
    (82 :> "R") @@ (83 :> "S") @@ (84 :> "T") @@ (85 :> "U") @@ (87 :> "W") @@
    (97 :> "a") @@ (100 :> "d") @@ (101 :> "e") @@ (105 :> "i") @@
    (109 :> "m") @@ (112 :> "p") @@ (114 :> "r") @@ (115 :> "s") @@ (116 :> "t") @@
    (119 :> "w") @@ (121 :> "y")

\* bytes.decode("latin-1"): one character per byte
RECURSIVE decode(_)
decode(b) == IF b = <<>> THEN "" ELSE Latin1[Head(b)] \o decode(Tail(b))

(***************************************************************************)
(* ASCII tokens searched for in payloads.                                  *)
(***************************************************************************)
TOK ==
    [READ |-> <<82, 69, 65, 68>>,
     WRITE |-> <<87, 82, 73, 84, 69>>,
     OPER |-> <<79, 80, 69, 82>>,
     SELECT |-> <<83, 69, 76, 69, 67, 84>>,
     UNSOL |-> <<85, 78, 83, 79, 76>>,
     COLD |-> <<67, 79, 76, 68>>,
     WARM |-> <<87, 65, 82, 77>>,
     CLEAR |-> <<67, 76, 69, 65, 82>>,
     RESTART |-> <<82, 69, 83, 84, 65, 82, 84>>,
     DNP |-> <<68, 78, 80>>,
     OB1 |-> <<79, 66, 49>>,
     OB |-> <<79, 66>>,
     DB |-> <<68, 66>>,
     FB |-> <<70, 66>>,
     FC |-> <<70, 67>>,
     System |-> <<83, 121, 115, 116, 101, 109>>,
     PLC |-> <<80, 76, 67>>,
     Firmware |-> <<70, 105, 114, 109, 119, 97, 114, 101>>,
     Update |-> <<85, 112, 100, 97, 116, 101>>,
     Copy |-> <<67, 111, 112, 121>>,
     Rom |-> <<82, 111, 109>>]

(***************************************************************************)
(* A captured frame as scapy exposes it: the transport layer (l4), its     *)
(* ports, the addresses of the network layer (None when the layer has no   *)
(* such attribute) and the Raw layer, if any, with its load.               *)
(***************************************************************************)
Pkt(l4, sport, dport, src, dst, hasRaw, load) ==
    [l4 |-> l4, sport |-> sport, dport |-> dport, src |-> src, dst |-> dst,
     hasRaw |-> hasRaw, load |-> load]

\* Python truthiness of an address: None and "" are falsy
Falsy(x) == x = None \/ x = ""

\* Python `a or b`
OrElse(a, b) == IF Falsy(a) THEN b ELSE a

\* the value a parser returns when it produces no record
NoRecord == [kind |-> "None"]

(***************************************************************************)
(* dnp3_monitor/parsers.py                                                 *)
(***************************************************************************)
DNP3_SUSPECT_FUNCS ==
    {"Operate", "Write", "EnableUnsolicited", "ColdRestart", "WarmRestart",
     "ClearRestart"}

HINTS ==
    <<TOK.UNSOL, TOK.OPER, TOK.RESTART, TOK.SELECT, TOK.READ, TOK.WRITE,
      TOK.DNP>>

DNP3_MIN_LEN == 8

\* variant of _classify_app_function that tries the UNSOL rule before the
\* READ rule
_classify_app_function_unsol_first(payload) ==
    IF payload = <<>> \/ Len(payload) < DNP3_MIN_LEN THEN "UnknownDNP3"
    ELSE IF Contains(TOK.UNSOL, payload) THEN "EnableUnsolicited"
    ELSE IF Contains(TOK.READ, payload) THEN "Read"
    ELSE IF Contains(TOK.WRITE, payload) THEN "Write"
    ELSE IF Contains(TOK.OPER, payload) THEN "Operate"
    ELSE IF Contains(TOK.SELECT, payload) THEN "Select"
    ELSE IF Contains(TOK.COLD, payload) /\ Contains(TOK.RESTART, payload)
         THEN "ColdRestart"
    ELSE IF Contains(TOK.WARM, payload) /\ Contains(TOK.RESTART, payload)
         THEN "WarmRestart"
    ELSE IF Contains(TOK.CLEAR, payload) /\ Contains(TOK.RESTART, payload)
         THEN "ClearRestart"
    ELSE "UnknownDNP3"

_classify_app_function(payload) ==
    IF payload = <<>> \/ Len(payload) < DNP3_MIN_LEN THEN "UnknownDNP3"
    ELSE IF Contains(TOK.READ, payload) THEN "Read"
    ELSE IF Contains(TOK.WRITE, payload) THEN "Write"
    ELSE IF Contains(TOK.OPER, payload) THEN "Operate"
    ELSE IF Contains(TOK.SELECT, payload) THEN "Select"
    ELSE IF Contains(TOK.UNSOL, payload) THEN "EnableUnsolicited"
    ELSE IF Contains(TOK.COLD, payload) /\ Contains(TOK.RESTART, payload)
         THEN "ColdRestart"
    ELSE IF Contains(TOK.WARM, payload) /\ Contains(TOK.RESTART, payload)
         THEN "WarmRestart"
    ELSE IF Contains(TOK.CLEAR, payload) /\ Contains(TOK.RESTART, payload)
         THEN "ClearRestart"
    ELSE "UnknownDNP3"

\* variant of the hints loop that stops at the first token found
CollectHints_first_only(tokens, payload) ==
    LET found == SelectSeq(tokens, LAMBDA h : Contains(h, payload))
    IN  [i \in 1..(IF found = <<>> THEN 0 ELSE 1) |-> decode(found[i])]

\* the hints loop: every token of the list found in the payload, decoded,
\* in list order
CollectHints(tokens, payload) ==
    LET found == SelectSeq(tokens, LAMBDA h : Contains(h, payload))
    IN  [i \in 1..Len(found) |-> decode(found[i])]

parse_dnp3_packet(pkt) ==
    IF ~pkt.hasRaw THEN NoRecord
    ELSE LET payload == pkt.load
             func == _classify_app_function(payload)
         IN  [kind |-> "dict",
              src |-> OrElse(pkt.src, "unknown"),
              dst |-> OrElse(pkt.dst, "unknown"),
              function |-> func,
              length |-> Len(payload),
              hints |-> CollectHints(HINTS, payload),
              suspect |-> func \in DNP3_SUSPECT_FUNCS]

(***************************************************************************)
(* s7_comm_analyzer/parsers.py                                             *)
(***************************************************************************)
FUNC_MAP ==
    (4 :> "ReadVar") @@ (5 :> "WriteVar") @@ (2 :> "Start") @@
    (3 :> "Stop") @@ (240 :> "SetupComm")

S7_SUSPECT_FUNCS ==
    {"WriteVar", "Start", "Stop", "DownloadBlock", "CopyRamToRom",
     "FirmwareUpdate"}

BLOCK_HINTS ==
    <<TOK.OB1, TOK.OB, TOK.DB, TOK.FB, TOK.FC, TOK.System, TOK.PLC,
      TOK.Firmware, TOK.Update>>

S7_MARKER == 50
BIG_LEN == 200
HUGE_LEN == 800
S7_MIN_LEN == 10

\* payload[1] is read before any rule but the first is tried: a payload that
\* passes the marker test and has no second byte raises IndexError
guess_function_raises(payload) ==
    /\ payload # <<>>
    /\ payload[1] = S7_MARKER
    /\ Len(payload) < 2

\* variant that tries the firmware rule before the block rule
_guess_function_firmware_first(payload) ==
    IF payload = <<>> \/ payload[1] # S7_MARKER THEN "NonS7Payload"
    ELSE LET big == Len(payload) >= BIG_LEN
             huge == Len(payload) >= HUGE_LEN
             func_byte == payload[2]
             base == IF func_byte \in DOMAIN FUNC_MAP
                     THEN FUNC_MAP[func_byte] ELSE None
         IN  IF huge /\ (Contains(TOK.Firmware, payload)
                         \/ Contains(TOK.Update, payload))
             THEN "FirmwareUpdate"
             ELSE IF big /\ \E i \in DOMAIN BLOCK_HINTS :
                           Contains(BLOCK_HINTS[i], payload)
             THEN "DownloadBlock"
             ELSE IF big /\ Contains(TOK.Copy, payload)
                     /\ Contains(TOK.Rom, payload)
             THEN "CopyRamToRom"
             ELSE IF base # None THEN base
             ELSE IF HasByte(5, payload) THEN "WriteVar"
             ELSE IF HasByte(4, payload) THEN "ReadVar"
             ELSE "Unknown"

_guess_function(payload) ==
    IF payload = <<>> \/ payload[1] # S7_MARKER THEN "NonS7Payload"
    ELSE LET big == Len(payload) >= BIG_LEN
             huge == Len(payload) >= HUGE_LEN
             func_byte == payload[2]
             base == IF func_byte \in DOMAIN FUNC_MAP
                     THEN FUNC_MAP[func_byte] ELSE None
         IN  IF big /\ \E i \in DOMAIN BLOCK_HINTS :
                           Contains(BLOCK_HINTS[i], payload)
             THEN "DownloadBlock"
             ELSE IF huge /\ (Contains(TOK.Firmware, payload)
                              \/ Contains(TOK.Update, payload))
             THEN "FirmwareUpdate"
             ELSE IF big /\ Contains(TOK.Copy, payload) /\ Contains(TOK.Rom, payload)
             THEN "CopyRamToRom"
             ELSE IF base # None THEN base
             ELSE IF HasByte(5, payload) THEN "WriteVar"
             ELSE IF HasByte(4, payload) THEN "ReadVar"
             ELSE "Unknown"

parse_s7_packet(pkt) ==
    IF ~pkt.hasRaw THEN NoRecord
    ELSE LET payload == pkt.load
         IN  IF Len(payload) < S7_MIN_LEN \/ payload[1] # S7_MARKER
             THEN NoRecord
             ELSE [kind |-> "dict",
                   src |-> OrElse(pkt.src, "unknown"),
                   dst |-> OrElse(pkt.dst, "unknown"),
                   function_code |-> _guess_function(payload),
                   length |-> Len(payload),
                   hints |-> CollectHints(BLOCK_HINTS, payload)]

(***************************************************************************)
(* Inputs of the classifiers: payloads assembled from chunks (tokens,      *)
(* single bytes, filler), S7 payloads also padded with zero bytes up to a  *)
(* total length around the two size thresholds.                            *)
(***************************************************************************)
RECURSIVE Concat(_)
Concat(chunks) ==
    IF chunks = <<>> THEN <<>> ELSE Head(chunks) \o Concat(Tail(chunks))

SeqsUpTo(S, n) == UNION {[1..k -> S] : k \in 0..n}

PadTo(p, n) == IF Len(p) >= n THEN p ELSE p \o Zeros(n - Len(p))

DnpPayloads ==
    LET chunks == {TOK.READ, TOK.WRITE, TOK.OPER, TOK.SELECT, TOK.UNSOL,
                   TOK.COLD, TOK.WARM, TOK.CLEAR, TOK.RESTART, TOK.DNP,
                   Zeros(4)}
    IN  {Concat(c) : c \in SeqsUpTo(chunks, MaxDnpChunks)}

S7Payloads ==
    LET prefixes == {<<>>, <<S7_MARKER>>, <<0, 5>>}
                    \cup {<<S7_MARKER, b>> : b \in {2, 3, 4, 5, 240, 0}}
        chunks == {TOK.DB, TOK.OB1, TOK.Firmware, TOK.Update, TOK.Copy,
                   TOK.Rom, <<5>>, <<4>>}
        padlens == {0, S7_MIN_LEN, BIG_LEN - 1, BIG_LEN, HUGE_LEN}
    IN  {PadTo(pre \o Concat(c), n) :
            pre \in prefixes, c \in SeqsUpTo(chunks, MaxS7Chunks),
            n \in padlens}

ClassifierPkts ==
    {Pkt("TCP", 1025, 20000, "10.0.0.1", "10.0.0.2", TRUE, p) :
        p \in DnpPayloads}
    \cup {Pkt("TCP", 1025, 102, "10.0.0.1", "10.0.0.2", TRUE, p) :
        p \in S7Payloads}
    \cup {Pkt("TCP", 1025, 102, "10.0.0.1", "10.0.0.2", FALSE, <<>>)}

NoRet == [kind |-> "none", value |-> ""]

Call_classify_app_function ==
    /\ cl_pc = "ready"
    /\ cl_pkt.hasRaw
    /\ cl_call' = "_classify_app_function"
    /\ cl_ret' = [kind |-> "str",
                  value |-> _classify_app_function(cl_pkt.load)]
    /\ cl_pc' = "done"
    /\ UNCHANGED <<cl_pkt, prvars, anvars, ixvars, tgvars, bavars>>

Call_parse_dnp3_packet ==
    /\ cl_pc = "ready"
    /\ cl_call' = "parse_dnp3_packet"
    /\ cl_ret' = LET r == parse_dnp3_packet(cl_pkt)
                 IN  [kind |-> r.kind, value |-> r]
    /\ cl_pc' = "done"
    /\ UNCHANGED <<cl_pkt, prvars, anvars, ixvars, tgvars, bavars>>

Call_guess_function ==
    /\ cl_pc = "ready"
    /\ cl_pkt.hasRaw
    /\ cl_call' = "_guess_function"
    /\ cl_ret' = IF guess_function_raises(cl_pkt.load)
                 THEN [kind |-> "raise", value |-> "IndexError"]
                 ELSE [kind |-> "str", value |-> _guess_function(cl_pkt.load)]
    /\ cl_pc' = "done"
    /\ UNCHANGED <<cl_pkt, prvars, anvars, ixvars, tgvars, bavars>>

Call_parse_s7_packet ==
    /\ cl_pc = "ready"
    /\ cl_call' = "parse_s7_packet"
    /\ cl_ret' = LET r == parse_s7_packet(cl_pkt)
                 IN  [kind |-> r.kind, value |-> r]
    /\ cl_pc' = "done"
    /\ UNCHANGED <<cl_pkt, prvars, anvars, ixvars, tgvars, bavars>>

ClNext ==
    \/ Call_classify_app_function
    \/ Call_parse_dnp3_packet
    \/ Call_guess_function
    \/ Call_parse_s7_packet


(***************************************************************************)
(* Properties of the classifiers (SpecClassify).                           *)
(***************************************************************************)
Min(S) == CHOOSE x \in S : \A y \in S : x <= y

\* C2: a payload below the protocol's minimum (DNP3: fewer than 8 bytes;
\* S7Comm: empty or first byte not 0x32) is classified as the sentinel
\* operation (UnknownDNP3 / NonS7Payload) with an empty hint set.
C2_ShortPayloadSentinelNoHints ==
    /\ (cl_pc = "done" /\ cl_call = "parse_dnp3_packet" /\ cl_pkt.hasRaw
        /\ Len(cl_pkt.load) < 8)
       => (cl_ret.value.function = "UnknownDNP3" /\ cl_ret.value.hints = <<>>)
    /\ (cl_pc = "done" /\ cl_call = "_guess_function"
        /\ (cl_pkt.load = <<>> \/ cl_pkt.load[1] # 50))
       => (cl_ret.kind = "str" /\ cl_ret.value = "NonS7Payload")
    /\ (cl_pc = "done" /\ cl_call = "parse_s7_packet" /\ cl_pkt.hasRaw
        /\ (cl_pkt.load = <<>> \/ cl_pkt.load[1] # 50))
       => cl_ret.kind = "None"

\* the seven S7Comm rules in the documented order
S7RuleHolds(i, p) ==
    CASE i = 1 -> p = <<>> \/ p[1] # 50
      [] i = 2 -> Len(p) >= 200
                  /\ \E t \in {TOK.OB1, TOK.OB, TOK.DB, TOK.FB, TOK.FC, TOK.System, TOK.PLC, TOK.Firmware,
                               TOK.Update} : Contains(t, p)
      [] i = 3 -> Len(p) >= 800
                  /\ (Contains(TOK.Firmware, p) \/ Contains(TOK.Update, p))
      [] i = 4 -> Len(p) >= 200 /\ Contains(TOK.Copy, p) /\ Contains(TOK.Rom, p)
      [] i = 5 -> Len(p) >= 2 /\ p[2] \in {2, 3, 4, 5, 240}
      [] i = 6 -> HasByte(5, p) \/ HasByte(4, p)
      [] i = 7 -> TRUE

S7RuleResult(i, p) ==
    CASE i = 1 -> "NonS7Payload"
      [] i = 2 -> "DownloadBlock"
      [] i = 3 -> "FirmwareUpdate"
      [] i = 4 -> "CopyRamToRom"
      [] i = 5 -> (CASE p[2] = 2 -> "Start"
                     [] p[2] = 3 -> "Stop"
                     [] p[2] = 4 -> "ReadVar"
                     [] p[2] = 5 -> "WriteVar"
                     [] p[2] = 240 -> "SetupComm")
      [] i = 6 -> IF HasByte(5, p) THEN "WriteVar" ELSE "ReadVar"
      [] i = 7 -> "Unknown"

S7FirstMatch(p) == S7RuleResult(Min({i \in 1..7 : S7RuleHolds(i, p)}), p)

\* C3: for every payload _guess_function returns the result of the first
\* matching rule of the documented order (marker, block download, firmware,
\* copy RAM to ROM, function-code table, 0x05/0x04 anywhere, Unknown).
C3_GuessFunctionFirstMatch ==
    (cl_pc = "done" /\ cl_call = "_guess_function")
    => (cl_ret.kind = "str" /\ cl_ret.value = S7FirstMatch(cl_pkt.load))

\* the nine DNP3 rules in the documented order: tokens that must all be
\* present, and the operation
DNP3Rules ==
    << <<{TOK.READ}, "Read">>, <<{TOK.WRITE}, "Write">>, <<{TOK.OPER}, "Operate">>,
       <<{TOK.SELECT}, "Select">>, <<{TOK.UNSOL}, "EnableUnsolicited">>,
       <<{TOK.COLD, TOK.RESTART}, "ColdRestart">>, <<{TOK.WARM, TOK.RESTART}, "WarmRestart">>,
       <<{TOK.CLEAR, TOK.RESTART}, "ClearRestart">>, <<{}, "UnknownDNP3">> >>

DNP3FirstMatch(p) ==
    DNP3Rules[Min({i \in DOMAIN DNP3Rules :
                      \A t \in DNP3Rules[i][1] : Contains(t, p)})][2]

\* C4: for every payload of at least 8 bytes _classify_app_function returns
\* the operation of the first matching rule in the order READ, WRITE, OPER,
\* SELECT, UNSOL, COLD+RESTART, WARM+RESTART, CLEAR+RESTART, else
\* UnknownDNP3.
C4_ClassifyFirstMatch ==
    (cl_pc = "done" /\ cl_call = "_classify_app_function"
     /\ Len(cl_pkt.load) >= 8)
    => cl_ret.value = DNP3FirstMatch(cl_pkt.load)

\* a payload with both READ and UNSOL has been classified as Read
C4_Witness ==
    /\ cl_pc = "done"
    /\ cl_call = "_classify_app_function"
    /\ Len(cl_pkt.load) >= 8
    /\ Contains(TOK.READ, cl_pkt.load)
    /\ Contains(TOK.UNSOL, cl_pkt.load)
    /\ cl_ret.value = "Read"

\* the operation names _guess_function can return
S7_REACHABLE_NAMES ==
    {"NonS7Payload", "DownloadBlock", "CopyRamToRom", "Start", "Stop",
     "ReadVar", "WriteVar", "SetupComm", "Unknown"}

\* C25: _guess_function never returns FirmwareUpdate: a payload that
\* satisfies the firmware rule (first byte 0x32, at least 800 bytes,
\* contains Firmware or Update) also satisfies the block rule tried before
\* it, and every name returned, by _guess_function or in a record of
\* parse_s7_packet, is one of NonS7Payload, DownloadBlock, CopyRamToRom,
\* Start, Stop, ReadVar, WriteVar, SetupComm, Unknown.
C25_NeverFirmwareUpdate ==
    /\ (cl_pkt.load # <<>> /\ cl_pkt.load[1] = 50
        /\ S7RuleHolds(3, cl_pkt.load))
          => S7RuleHolds(2, cl_pkt.load)
    /\ (cl_pc = "done" /\ cl_call = "_guess_function" /\ cl_ret.kind = "str")
          => cl_ret.value \in S7_REACHABLE_NAMES
    /\ (cl_pc = "done" /\ cl_call = "parse_s7_packet" /\ cl_ret.kind = "dict")
          => cl_ret.value.function_code \in S7_REACHABLE_NAMES

\* a payload of 800 bytes that starts with 0x32 and contains Update but
\* not Firmware has been classified as DownloadBlock
C25_Witness ==
    /\ cl_pc = "done"
    /\ cl_call = "_guess_function"
    /\ Len(cl_pkt.load) >= 800
    /\ cl_pkt.load[1] = 50
    /\ Contains(TOK.Update, cl_pkt.load)
    /\ ~Contains(TOK.Firmware, cl_pkt.load)
    /\ cl_ret.value = "DownloadBlock"

\* the block names and the bytes that spell them
S7BlockTokens ==
    ("OB1" :> TOK.OB1) @@ ("OB" :> TOK.OB) @@ ("DB" :> TOK.DB)
    @@ ("FB" :> TOK.FB) @@ ("FC" :> TOK.FC) @@ ("System" :> TOK.System)
    @@ ("PLC" :> TOK.PLC) @@ ("Firmware" :> TOK.Firmware)
    @@ ("Update" :> TOK.Update)

\* C26: in every record parse_s7_packet returns, hints holds exactly the
\* block names whose bytes occur in the payload, each once (so OB1 in hints
\* implies OB in hints); function_code is DownloadBlock if and only if
\* length >= 200 and hints is not empty; function_code is never
\* NonS7Payload and length, the length of the payload, is never below 10.
C26_HintsExactDownloadIff ==
    (cl_pc = "done" /\ cl_call = "parse_s7_packet" /\ cl_ret.kind = "dict")
    => LET rec == cl_ret.value
           present == {n \in DOMAIN S7BlockTokens :
                         Contains(S7BlockTokens[n], cl_pkt.load)}
       IN  /\ Range(rec.hints) = present
           /\ Len(rec.hints) = Cardinality(present)
           /\ "OB1" \in Range(rec.hints) => "OB" \in Range(rec.hints)
           /\ rec.function_code = "DownloadBlock"
                 <=> (rec.length >= 200 /\ rec.hints # <<>>)
           /\ rec.function_code # "NonS7Payload"
           /\ rec.length = Len(cl_pkt.load)
           /\ rec.length >= 10

\* a record of a payload of at least 200 bytes that holds OB1: both OB1
\* and OB are hints and the function is DownloadBlock
C26_Witness ==
    /\ cl_pc = "done"
    /\ cl_call = "parse_s7_packet"
    /\ cl_ret.kind = "dict"
    /\ cl_ret.value.length >= 200
    /\ Contains(TOK.OB1, cl_pkt.load)
    /\ {"OB1", "OB"} \subseteq Range(cl_ret.value.hints)
    /\ cl_ret.value.function_code = "DownloadBlock"

(***************************************************************************)
(* modbus_scanner/modbus_scan.py: probe_host.                              *)
(*                                                                         *)
(* The external Modbus client decides the outcome of every call.  A read   *)
(* returns a response with data, a response whose bits/registers are an    *)
(* empty list or None, an error response (isError() is True), a            *)
(* ModbusIOException object, or it throws.                                 *)
(***************************************************************************)
MaxLatencyMs == 1

PyNone == [t |-> "None"]
PyList(v) == [t |-> "list", v |-> v]

WINDOWS ==
    <<"coils", "discrete_inputs", "holding_registers", "input_registers">>

ReadOutcomes ==
    {"data", "empty_list", "none_field", "error_response", "io_exception",
     "throws"}

ExcMessages == {"timed out"}

\* the result dictionary as probe_host first builds it
InitialResult ==
    [reachable |-> FALSE,
     latency_ms |-> PyNone,
     reads |-> [w \in Range(WINDOWS) |-> PyNone],
     exposure |-> [unauthenticated_read |-> FALSE,
                   broad_register_access |-> FALSE],
     errors |-> <<>>]

\* client = ModbusTcpClient(...): the constructor returns or throws
Construct ==
    /\ pr_pc = "construct"
    /\ \/ /\ client' = "open"
          /\ pr_pc' = "connect"
          /\ UNCHANGED result
       \/ \E m \in ExcMessages :
          /\ client' = client
          /\ result' = [result EXCEPT !.errors = Append(@, "probe_error: " \o m)]
          /\ pr_pc' = "finally"
    /\ UNCHANGED <<calls, outcome, clvars, anvars, ixvars, tgvars, bavars>>

\* variant whose early return leaves the function at once
Connect_return_skips_finally ==
    /\ pr_pc = "connect"
    /\ calls' = Append(calls, "connect")
    /\ \/ /\ result' = [result EXCEPT !.reachable = TRUE]
          /\ pr_pc' = "read_coils"
       \/ /\ result' = [result EXCEPT !.errors = Append(@, "Connection failed")]
          /\ pr_pc' = "returned"
       \/ \E m \in ExcMessages :
          /\ result' = [result EXCEPT !.errors = Append(@, "probe_error: " \o m)]
          /\ pr_pc' = "finally"
    /\ UNCHANGED <<client, outcome, clvars, anvars, ixvars, tgvars, bavars>>

\* client.connect(): True, False (early return through finally) or throws
Connect ==
    /\ pr_pc = "connect"
    /\ calls' = Append(calls, "connect")
    /\ \/ /\ result' = [result EXCEPT !.reachable = TRUE]
          /\ pr_pc' = "read_coils"
       \/ /\ result' = [result EXCEPT !.errors = Append(@, "Connection failed")]
          /\ pr_pc' = "finally"
       \/ \E m \in ExcMessages :
          /\ result' = [result EXCEPT !.errors = Append(@, "probe_error: " \o m)]
          /\ pr_pc' = "finally"
    /\ UNCHANGED <<client, outcome, clvars, anvars, ixvars, tgvars, bavars>>

\* the list stored for a successful read: list(rr.bits) if rr.bits is not
\* None else []
StoredList(o) == IF o = "data" THEN <<1, 0>> ELSE <<>>

\* variant that raises the flag only when the read brought values
SuccessfulRead_flag_needs_data(res, w, o) ==
    [res EXCEPT !.reads[w] = PyList(StoredList(o)),
                !.exposure.unauthenticated_read =
                   IF o = "data" THEN TRUE ELSE @]

\* the body of `if not isinstance(rr, ModbusIOException) and rr.isError()
\* is False`: store the window, raise unauthenticated_read
SuccessfulRead(res, w, o) ==
    [res EXCEPT !.reads[w] = PyList(StoredList(o)),
                !.exposure.unauthenticated_read = TRUE]

\* one try block: the read, the success test and the except clause
ReadStep(w, call) ==
    /\ calls' = Append(calls, call)
    /\ \E o \in ReadOutcomes :
       /\ outcome' = [outcome EXCEPT ![w] = o]
       /\ \/ /\ o \in {"data", "empty_list", "none_field"}
             /\ result' = SuccessfulRead(result, w, o)
          \/ /\ o \in {"error_response", "io_exception"}
             /\ UNCHANGED result
          \/ /\ o = "throws"
             /\ \E m \in ExcMessages :
                  result' = [result EXCEPT
                               !.errors = Append(@, w \o "_read_error: " \o m)]
    /\ UNCHANGED <<client, clvars, anvars, ixvars, tgvars, bavars>>

\* variant in which an exception of the first read leaves the outer try
ReadCoils_throw_aborts ==
    /\ pr_pc = "read_coils"
    /\ ReadStep("coils", "read_coils")
    /\ pr_pc' = IF outcome'["coils"] = "throws" THEN "finally"
                ELSE "read_discrete_inputs"

ReadCoils ==
    /\ pr_pc = "read_coils"
    /\ ReadStep("coils", "read_coils")
    /\ pr_pc' = "read_discrete_inputs"

ReadDiscreteInputs ==
    /\ pr_pc = "read_discrete_inputs"
    /\ ReadStep("discrete_inputs", "read_discrete_inputs")
    /\ pr_pc' = "read_holding_registers"

ReadHoldingRegisters ==
    /\ pr_pc = "read_holding_registers"
    /\ ReadStep("holding_registers", "read_holding_registers")
    /\ pr_pc' = "read_input_registers"

ReadInputRegisters ==
    /\ pr_pc = "read_input_registers"
    /\ ReadStep("input_registers", "read_input_registers")
    /\ pr_pc' = "exposure"

\* variant that counts every list, also an empty one
windows_with_data_any_list(reads) ==
    Cardinality({w \in DOMAIN reads : reads[w].t = "list"})

windows_with_data(reads) ==
    Cardinality({w \in DOMAIN reads :
                    reads[w].t = "list" /\ Len(reads[w].v) > 0})

Exposure ==
    /\ pr_pc = "exposure"
    /\ result' = IF windows_with_data(result.reads) >= 2
                 THEN [result EXCEPT !.exposure.broad_register_access = TRUE]
                 ELSE result
    /\ pr_pc' = "finally"
    /\ UNCHANGED <<client, calls, outcome, clvars, anvars, ixvars, tgvars,
                   bavars>>

\* variant without the try around close: its exception leaves probe_host
Finally_close_uncaught ==
    /\ pr_pc = "finally"
    /\ \/ /\ client = "unbound"
          /\ UNCHANGED <<client, calls, result>>
          /\ pr_pc' = "raised"
       \/ /\ client = "open"
          /\ calls' = Append(calls, "close")
          /\ \/ /\ client' = "closed"
                /\ \E ms \in 0..MaxLatencyMs :
                     result' = [result EXCEPT
                                  !.latency_ms = [t |-> "float", v |-> ms]]
                /\ pr_pc' = "returned"
             \/ /\ client' = "close_failed"
                /\ UNCHANGED result
                /\ pr_pc' = "raised"
    /\ UNCHANGED <<outcome, clvars, anvars, ixvars, tgvars, bavars>>

\* the finally clause: close (NameError when client was never bound, or an
\* exception of close, both swallowed), then the latency; control then
\* leaves probe_host with the result
Finally ==
    /\ pr_pc = "finally"
    /\ \/ /\ client = "unbound"
          /\ UNCHANGED <<client, calls>>
       \/ /\ client = "open"
          /\ calls' = Append(calls, "close")
          /\ client' \in {"closed", "close_failed"}
    /\ \E ms \in 0..MaxLatencyMs :
          result' = [result EXCEPT !.latency_ms = [t |-> "float", v |-> ms]]
    /\ pr_pc' = "returned"
    /\ UNCHANGED <<outcome, clvars, anvars, ixvars, tgvars, bavars>>

PrNext ==
    \/ Construct
    \/ Connect
    \/ ReadCoils
    \/ ReadDiscreteInputs
    \/ ReadHoldingRegisters
    \/ ReadInputRegisters
    \/ Exposure
    \/ Finally

(***************************************************************************)
(* dnp3_monitor/dnp3_analyze.py and s7_comm_analyzer/s7_analyze.py:        *)
(* analyze_pcap, one loop iteration per frame.                             *)
(***************************************************************************)
MaxFrames == 3
MaxSummaryFiles == 2

DNP3_PORT == 20000
S7_PORT == 102

\* variant of the set below that lags behind the parser's set
S7_ANALYZE_SUSPECT_stale == {"WriteVar", "Start", "Stop"}

\* the suspect set analyze_pcap of S7Comm spells out in its loop
S7_ANALYZE_SUSPECT ==
    {"WriteVar", "Start", "Stop", "DownloadBlock", "CopyRamToRom",
     "FirmwareUpdate"}

\* the frames a capture is made of
AnalyzerPkts ==
    {Pkt("TCP", 1025, 20000, "10.0.0.1", "10.0.0.2", TRUE, TOK.WRITE \o Zeros(4)),
     Pkt("TCP", 20000, 1025, "10.0.0.2", "10.0.0.1", TRUE, TOK.READ \o Zeros(4)),
     Pkt("UDP", 1025, 20000, "10.0.0.1", "10.0.0.2", TRUE, TOK.OPER \o Zeros(4)),
     Pkt("TCP", 1025, 20000, None, "10.0.0.3", TRUE, TOK.READ),
     Pkt("TCP", 1025, 20000, "10.0.0.1", "10.0.0.2", FALSE, <<>>),
     Pkt("TCP", 1025, 80, "10.0.0.4", "10.0.0.5", TRUE, TOK.WRITE \o Zeros(4)),
     Pkt("ICMP", 0, 0, "10.0.0.1", "10.0.0.2", FALSE, <<>>),
     Pkt("TCP", 1025, 102, "10.0.0.1", "10.0.0.2", TRUE,
         PadTo(<<S7_MARKER, 5>>, S7_MIN_LEN)),
     Pkt("TCP", 102, 1025, "10.0.0.2", "10.0.0.1", TRUE,
         PadTo(<<S7_MARKER, 4>>, S7_MIN_LEN)),
     Pkt("TCP", 1025, 102, "", "10.0.0.3", TRUE,
         PadTo(<<S7_MARKER, 0>> \o TOK.DB, BIG_LEN)),
     Pkt("TCP", 1025, 102, "10.0.0.1", "10.0.0.2", TRUE, Zeros(S7_MIN_LEN)),
     Pkt("UDP", 1025, 102, "10.0.0.1", "10.0.0.2", TRUE,
         PadTo(<<S7_MARKER, 5>>, S7_MIN_LEN)),
     Pkt("TCP", 1025, 102, "10.0.0.1", "10.0.0.2", FALSE, <<>>)}

InitialSummary ==
    [total_packets |-> 0, protocol_packets |-> 0, suspect_functions |-> 0,
     unique_hosts |-> {}]

\* summary["unique_hosts"].add(parsed["src"]); ....add(parsed["dst"])
\* variant of AddHosts that stops adding once two hosts are known
AddHosts_capped_at_two(hosts, parsed) ==
    IF Cardinality(hosts) >= 2 THEN hosts
    ELSE hosts \cup {parsed.src, parsed.dst}

AddHosts_src_only(hosts, parsed) == hosts \cup {parsed.src}

AddHosts(hosts, parsed) == hosts \cup {parsed.src, parsed.dst}

is_dnp3(pkt) ==
    \/ pkt.l4 = "TCP" /\ (pkt.dport = DNP3_PORT \/ pkt.sport = DNP3_PORT)
    \/ pkt.l4 = "UDP" /\ (pkt.dport = DNP3_PORT \/ pkt.sport = DNP3_PORT)

is_s7(pkt) == pkt.l4 = "TCP" /\ (pkt.dport = S7_PORT \/ pkt.sport = S7_PORT)

\* one iteration of the loop of dnp3_analyze.analyze_pcap
Dnp3Iterate ==
    /\ an_pc = "loop"
    /\ protocol = "dnp3"
    /\ idx <= Len(packets)
    /\ LET pkt == packets[idx]
           counted == [summary EXCEPT !.total_packets = @ + 1]
           parsed == parse_dnp3_packet(pkt)
       IN  IF is_dnp3(pkt) /\ parsed # NoRecord
           THEN /\ results' = Append(results, parsed)
                /\ summary' =
                     [counted EXCEPT
                        !.protocol_packets = @ + 1,
                        !.unique_hosts = AddHosts(@, parsed),
                        !.suspect_functions =
                           IF parsed.suspect THEN @ + 1 ELSE @]
           ELSE /\ results' = results
                /\ summary' = counted
    /\ idx' = idx + 1
    /\ UNCHANGED <<protocol, packets, report, an_pc, clvars, prvars, ixvars,
                   tgvars, bavars>>

\* one iteration of the loop of s7_analyze.analyze_pcap
S7Iterate ==
    /\ an_pc = "loop"
    /\ protocol = "s7"
    /\ idx <= Len(packets)
    /\ LET pkt == packets[idx]
           counted == [summary EXCEPT !.total_packets = @ + 1]
           parsed == parse_s7_packet(pkt)
       IN  IF is_s7(pkt) /\ parsed # NoRecord
           THEN /\ results' = Append(results, parsed)
                /\ summary' =
                     [counted EXCEPT
                        !.protocol_packets = @ + 1,
                        !.unique_hosts = AddHosts(@, parsed),
                        !.suspect_functions =
                           IF parsed.function_code \in S7_ANALYZE_SUSPECT
                           THEN @ + 1 ELSE @]
           ELSE /\ results' = results
                /\ summary' = counted
    /\ idx' = idx + 1
    /\ UNCHANGED <<protocol, packets, report, an_pc, clvars, prvars, ixvars,
                   tgvars, bavars>>

\* the frames are exhausted: the summary of the report, unique_hosts being
\* list(filter(None, ...))
AnalyzeReturn ==
    /\ an_pc = "loop"
    /\ idx > Len(packets)
    /\ report' = [summary EXCEPT
                    !.unique_hosts = {h \in @ : ~Falsy(h)}]
    /\ an_pc' = "done"
    /\ UNCHANGED <<protocol, packets, idx, summary, results, clvars, prvars,
                   ixvars, tgvars, bavars>>

AnNext == Dnp3Iterate \/ S7Iterate \/ AnalyzeReturn

\* the body of the loop of dnp3_analyze.analyze_pcap as a function of the
\* accumulator and the frame
Dnp3Step(sm, pkt) ==
    LET counted == [sm EXCEPT !.total_packets = @ + 1]
        parsed == parse_dnp3_packet(pkt)
    IN  IF is_dnp3(pkt) /\ parsed # NoRecord
        THEN [counted EXCEPT
                !.protocol_packets = @ + 1,
                !.unique_hosts = AddHosts(@, parsed),
                !.suspect_functions = IF parsed.suspect THEN @ + 1 ELSE @]
        ELSE counted

\* the body of the loop of s7_analyze.analyze_pcap
S7Step(sm, pkt) ==
    LET counted == [sm EXCEPT !.total_packets = @ + 1]
        parsed == parse_s7_packet(pkt)
    IN  IF is_s7(pkt) /\ parsed # NoRecord
        THEN [counted EXCEPT
                !.protocol_packets = @ + 1,
                !.unique_hosts = AddHosts(@, parsed),
                !.suspect_functions =
                   IF parsed.function_code \in S7_ANALYZE_SUSPECT
                   THEN @ + 1 ELSE @]
        ELSE counted

\* the loop over a whole capture, first frame first
RECURSIVE FoldFrames(_, _, _)
FoldFrames(proto, sm, pkts) ==
    IF pkts = <<>> THEN sm
    ELSE FoldFrames(proto,
                    IF proto = "dnp3" THEN Dnp3Step(sm, Head(pkts))
                    ELSE S7Step(sm, Head(pkts)),
                    Tail(pkts))

\* the summary analyze_pcap returns for a capture
analyze_summary(proto, pkts) ==
    LET sm == FoldFrames(proto, InitialSummary, pkts)
    IN  [sm EXCEPT !.unique_hosts = {h \in @ : ~Falsy(h)}]

(***************************************************************************)
(* build_global_index.py, build_dnp3_index.py, build_s7_index.py.          *)
(*                                                                         *)
(* A report folder is the list os.listdir returns.  A file is its name     *)
(* (stem and extension) and its content: unreadable, not JSON, or a JSON   *)
(* value.  A JSON value is a tagged record; an object maps every key of    *)
(* Keys to a value or to Missing when the key is absent.                   *)
(***************************************************************************)
Keys == {"meta", "summary", "pcap_file", "total_packets", "dnp3_packets",
         "s7_packets", "suspect_functions", "unique_hosts"}

Missing == [t |-> "missing"]
JNull == [t |-> "null"]
JInt(n) == [t |-> "int", v |-> n]
JStr(s) == [t |-> "str", v |-> s]
JList(items) == [t |-> "list", v |-> items]
JDict(fields) ==
    [t |-> "dict",
     v |-> [k \in Keys |-> IF k \in DOMAIN fields THEN fields[k] ELSE Missing]]

\* the literal {} used as a default
EmptyDict == [t |-> "dict", v |-> [k \in Keys |-> Missing]]

\* open(...) or json.load(f) raises
LoadRaises(content) == content.t \in {"unreadable", "invalid_json"}

\* only a dict has the method get
HasGet(v) == v.t = "dict"

\* d.get(key, default)
Get(d, key, default) == IF d.v[key] = Missing THEN default ELSE d.v[key]

\* n + v and v > 0 raise TypeError unless v is a number
AddRaises(v) == v.t # "int"


\* bool(v)
JTruthy(v) ==
    CASE v.t = "int" -> v.v # 0
      [] v.t = "str" -> v.v # ""
      [] v.t = "list" -> v.v # <<>>
      [] v.t = "dict" -> \E k \in Keys : v.v[k] # Missing
      [] OTHER -> FALSE

\* ', '.join(v) raises TypeError unless v is an iterable of strings
JoinRaises(v) ==
    CASE v.t = "list" -> \E i \in DOMAIN v.v : v.v[i].t # "str"
      [] v.t = "str" -> FALSE
      [] v.t = "dict" -> FALSE
      [] OTHER -> TRUE



\* the key of the protocol packet counter in the reports an index reads
ProtoKey(fn) == IF fn = "build_s7_index" THEN "s7_packets" ELSE "dnp3_packets"

ZeroTotals == [total_pcaps |-> 0, total_packets |-> 0, suspect |-> 0]

\* the body of the loop of collect_summary: the totals after the file and
\* whether the except clause ran
CollectStep(tt, f) ==
    IF f.name.ext # ".json" THEN [totals |-> tt, raised |-> FALSE]
    ELSE LET counted == [tt EXCEPT !.total_pcaps = @ + 1]
         IN  IF LoadRaises(f.content) \/ ~HasGet(f.content)
             THEN [totals |-> counted, raised |-> TRUE]
             ELSE LET summ == Get(f.content, "summary", EmptyDict)
                  IN  IF ~HasGet(summ)
                      THEN [totals |-> counted, raised |-> TRUE]
                      ELSE LET tp == Get(summ, "total_packets", JInt(0))
                               sf == Get(summ, "suspect_functions", JInt(0))
                               c2 == IF AddRaises(tp) THEN counted
                                     ELSE [counted EXCEPT
                                             !.total_packets = @ + tp.v]
                           IN  IF AddRaises(tp) \/ AddRaises(sf)
                               THEN [totals |-> c2, raised |-> TRUE]
                               ELSE [totals |-> [c2 EXCEPT
                                                   !.suspect = @ + sf.v],
                                     raised |-> FALSE]

\* the entry load_reports appends for a file it could read
ReportEntry(f) ==
    [json |-> f.name,
     html |-> [f.name EXCEPT !.ext = ".html"],
     meta |-> Get(f.content, "meta", EmptyDict),
     summary |-> Get(f.content, "summary", EmptyDict)]

\* the table row of a report cannot be rendered: the test for
\* suspect_html raises (build_dnp3_index tests `suspect and suspect > 0`,
\* build_s7_index tests `suspect > 0`), meta has no get, or the join raises
TableRowRaises(fn, r) ==
    \/ LET suspect == Get(r.summary, "suspect_functions", JInt(0))
       IN  IF fn = "build_dnp3_index"
           THEN JTruthy(suspect) /\ AddRaises(suspect)
           ELSE AddRaises(suspect)
    \/ ~HasGet(r.meta)
    \/ JoinRaises(Get(r.summary, "unique_hosts", JList(<<>>)))

\* the table row of a report
TableRow(fn, r) ==
    LET suspect == Get(r.summary, "suspect_functions", JInt(0))
    IN  [html |-> r.html,
         pcap_file |-> Get(r.meta, "pcap_file", JStr("")),
         total_packets |-> Get(r.summary, "total_packets", JStr("")),
         proto_packets |-> Get(r.summary, ProtoKey(fn), JStr("")),
         suspect |-> suspect,
         bad |-> JTruthy(suspect) /\ suspect.v > 0,
         hosts |-> Get(r.summary, "unique_hosts", JList(<<>>))]

EmptyChart == [labels |-> <<>>, total_packets |-> <<>>,
               proto_packets |-> <<>>, suspects |-> <<>>]

(***************************************************************************)
(* Report folders.                                                         *)
(***************************************************************************)
\* the contents of a file of a report folder: unreadable, not JSON, JSON
\* that is no object, objects without summary or with a summary of any
\* kind
Contents ==
    LET hostlist == JList(<<JStr("10.0.0.1"), JStr("10.0.0.2")>>)
        meta == JDict([pcap_file |-> JStr("a.pcap")])
        summaries ==
          { JDict([total_packets |-> tp, dnp3_packets |-> JInt(2),
                   suspect_functions |-> sf, unique_hosts |-> uh]) :
              tp \in {JInt(3), JStr("n/a")},
              sf \in {JInt(1), JInt(0), JStr("n/a"), JNull},
              uh \in {hostlist, JInt(2)} }
          \cup { JDict([total_packets |-> JInt(3),
                        suspect_functions |-> JInt(1)]),
                 JDict([suspect_functions |-> JStr("n/a")]) }
    IN  { [t |-> "unreadable"], [t |-> "invalid_json"], JList(<<>>), JInt(7),
          JDict([meta |-> meta]),
          JDict([meta |-> JNull,
                 summary |-> JDict([total_packets |-> JInt(3),
                                    suspect_functions |-> JInt(1),
                                    unique_hosts |-> hostlist])]) }
        \cup { JDict([meta |-> meta, summary |-> sm]) :
                 sm \in summaries \cup {JNull, JStr("n/a"), JList(<<>>)} }

\* the listings of a report folder: the i-th file is named after its
\* position, its extension is .json or, for a file that is no report, .html
Folders ==
    LET entries ==
          { [ext |-> ".json", content |-> c] : c \in Contents }
          \cup { [ext |-> ".html", content |-> [t |-> "invalid_json"]] }
    IN  { [i \in DOMAIN es |->
             [name |-> [stem |-> i, ext |-> es[i].ext],
              content |-> es[i].content]] :
          es \in SeqsUpTo(entries, MaxSummaryFiles) }

(***************************************************************************)
(* collect_summary(folder), and load_reports() followed by build_index.    *)
(***************************************************************************)
\* one iteration of the loop of collect_summary
CollectFile ==
    /\ ix_fn = "collect_summary"
    /\ ix_pc = "collect_loop"
    /\ ix_dir
    /\ ix_i <= Len(folder)
    /\ LET step == CollectStep(totals, folder[ix_i])
       IN  /\ totals' = step.totals
           /\ skipped' = IF step.raised THEN skipped \cup {ix_i} ELSE skipped
    /\ ix_i' = ix_i + 1
    /\ UNCHANGED <<ix_fn, ix_dir, folder, ix_pc, reports, warnings, chart,
                   table, clvars, prvars, anvars, tgvars, bavars>>

\* collect_summary returns: at once when the folder does not exist,
\* otherwise after the last file
CollectReturn ==
    /\ ix_fn = "collect_summary"
    /\ ix_pc = "collect_loop"
    /\ ~ix_dir \/ ix_i > Len(folder)
    /\ ix_pc' = "done"
    /\ UNCHANGED <<ix_fn, ix_dir, folder, ix_i, totals, reports, warnings,
                   skipped, chart, table, clvars, prvars, anvars, tgvars,
                   bavars>>

\* os.listdir(REPORT_DIR) raises when the folder does not exist
LoadListdirRaises ==
    /\ ix_fn \in {"build_dnp3_index", "build_s7_index"}
    /\ ix_pc = "load_loop"
    /\ ~ix_dir
    /\ ix_pc' = "raised"
    /\ UNCHANGED <<ix_fn, ix_dir, folder, ix_i, totals, reports, warnings,
                   skipped, chart, table, clvars, prvars, anvars, tgvars,
                   bavars>>

\* one iteration of the loop of load_reports
LoadFile ==
    /\ ix_fn \in {"build_dnp3_index", "build_s7_index"}
    /\ ix_pc = "load_loop"
    /\ ix_dir
    /\ ix_i <= Len(folder)
    /\ LET f == folder[ix_i]
       IN  IF f.name.ext # ".json"
           THEN UNCHANGED <<reports, warnings, skipped>>
           ELSE IF LoadRaises(f.content) \/ ~HasGet(f.content)
           THEN /\ warnings' = Append(warnings, f.name)
                /\ skipped' = skipped \cup {ix_i}
                /\ UNCHANGED reports
           ELSE /\ reports' = Append(reports, ReportEntry(f))
                /\ UNCHANGED <<warnings, skipped>>
    /\ ix_i' = ix_i + 1
    /\ UNCHANGED <<ix_fn, ix_dir, folder, ix_pc, totals, chart, table,
                   clvars, prvars, anvars, tgvars, bavars>>

\* load_reports returns; the script stops when the list is empty and
\* otherwise calls build_index on it
LoadReturn ==
    /\ ix_fn \in {"build_dnp3_index", "build_s7_index"}
    /\ ix_pc = "load_loop"
    /\ ix_dir
    /\ ix_i > Len(folder)
    /\ ix_pc' = IF reports = <<>> THEN "done" ELSE "chart_loop"
    /\ ix_i' = 1
    /\ UNCHANGED <<ix_fn, ix_dir, folder, totals, reports, warnings, skipped,
                   chart, table, clvars, prvars, anvars, tgvars, bavars>>

\* one iteration of the first loop of build_index: the chart series
ChartAppend ==
    /\ ix_pc = "chart_loop"
    /\ ix_i <= Len(reports)
    /\ LET r == reports[ix_i]
       IN  IF ~HasGet(r.summary)
           THEN /\ ix_pc' = "raised"
                /\ UNCHANGED <<chart, ix_i>>
           ELSE /\ chart' =
                     [labels |-> Append(chart.labels, r.html),
                      total_packets |->
                         Append(chart.total_packets,
                                Get(r.summary, "total_packets", JInt(0))),
                      proto_packets |->
                         Append(chart.proto_packets,
                                Get(r.summary, ProtoKey(ix_fn), JInt(0))),
                      suspects |->
                         Append(chart.suspects,
                                Get(r.summary, "suspect_functions", JInt(0)))]
                /\ ix_i' = ix_i + 1
                /\ UNCHANGED ix_pc
    /\ UNCHANGED <<ix_fn, ix_dir, folder, totals, reports, warnings, skipped,
                   table, clvars, prvars, anvars, tgvars, bavars>>

\* the first loop is over, the table loop starts
ChartDone ==
    /\ ix_pc = "chart_loop"
    /\ ix_i > Len(reports)
    /\ ix_pc' = "table_loop"
    /\ ix_i' = 1
    /\ UNCHANGED <<ix_fn, ix_dir, folder, totals, reports, warnings, skipped,
                   chart, table, clvars, prvars, anvars, tgvars, bavars>>

\* one iteration of the second loop of build_index: a table row
TableAppend ==
    /\ ix_pc = "table_loop"
    /\ ix_i <= Len(reports)
    /\ LET r == reports[ix_i]
       IN  IF TableRowRaises(ix_fn, r)
           THEN /\ ix_pc' = "raised"
                /\ UNCHANGED <<table, ix_i>>
           ELSE /\ table' = Append(table, TableRow(ix_fn, r))
                /\ ix_i' = ix_i + 1
                /\ UNCHANGED ix_pc
    /\ UNCHANGED <<ix_fn, ix_dir, folder, totals, reports, warnings, skipped,
                   chart, clvars, prvars, anvars, tgvars, bavars>>

\* build_index returns the page
BuildReturn ==
    /\ ix_pc = "table_loop"
    /\ ix_i > Len(reports)
    /\ ix_pc' = "done"
    /\ UNCHANGED <<ix_fn, ix_dir, folder, ix_i, totals, reports, warnings,
                   skipped, chart, table, clvars, prvars, anvars, tgvars,
                   bavars>>

IxNext ==
    \/ CollectFile
    \/ CollectReturn
    \/ LoadListdirRaises
    \/ LoadFile
    \/ LoadReturn
    \/ ChartAppend
    \/ ChartDone
    \/ TableAppend
    \/ BuildReturn

(***************************************************************************)
(* modbus_scanner/utils.py: expand_targets.                                *)
(*                                                                         *)
(* A Python str is a sequence of one-character strings.  The inputs are    *)
(* written over the characters 0-9 . / , @ t, space and newline, so the    *)
(* IPv6 parser of ipaddress.ip_network, which needs a colon, rejects every *)
(* one of them and only the IPv4 rules are modelled.  An IPv4 address is   *)
(* its four octets.                                                        *)
(***************************************************************************)
MaxTargetChunks == 3

DIGITS == <<"0", "1", "2", "3", "4", "5", "6", "7", "8", "9">>

DigitVal(c) == CHOOSE d \in 0..9 : DIGITS[d + 1] = c

\* int(s) for a string of digits
RECURSIVE int_of(_)
int_of(s) ==
    IF s = <<>> THEN 0
    ELSE int_of(SubSeq(s, 1, Len(s) - 1)) * 10 + DigitVal(s[Len(s)])

\* str(n) for a natural number
RECURSIVE str_of(_)
str_of(n) ==
    IF n < 10 THEN <<DIGITS[n + 1]>>
    ELSE str_of(n \div 10) \o <<DIGITS[(n % 10) + 1]>>

\* s.strip()
strip(s) ==
    LET keep == {i \in DOMAIN s : s[i] \notin {" ", "\n", "\t"}}
    IN  IF keep = {} THEN <<>>
        ELSE SubSeq(s, CHOOSE i \in keep : \A j \in keep : i <= j,
                       CHOOSE i \in keep : \A j \in keep : j <= i)

\* s.split(sep) for a one-character separator
RECURSIVE split(_, _)
split(s, sep) ==
    IF \A i \in DOMAIN s : s[i] # sep THEN <<s>>
    ELSE LET k == CHOOSE i \in DOMAIN s :
                      s[i] = sep /\ \A j \in 1..(i - 1) : s[j] # sep
         IN  <<SubSeq(s, 1, k - 1)>> \o split(SubSeq(s, k + 1, Len(s)), sep)

\* s.splitlines(): the lines of s, no empty last line after a final newline
splitlines(s) ==
    LET pieces == split(s, "\n")
    IN  IF pieces[Len(pieces)] = <<>>
        THEN SubSeq(pieces, 1, Len(pieces) - 1)
        ELSE pieces

\* [strip(x) for x in items if strip(x)]
RECURSIVE StrippedNonEmpty(_)
StrippedNonEmpty(items) ==
    IF items = <<>> THEN <<>>
    ELSE (IF strip(Head(items)) = <<>> THEN <<>>
          ELSE <<strip(Head(items))>>)
         \o StrippedNonEmpty(Tail(items))

\* digits without their leading zeros
RECURSIVE NoLeadingZeros(_)
NoLeadingZeros(s) ==
    IF s # <<>> /\ s[1] = "0" THEN NoLeadingZeros(Tail(s)) ELSE s

\* ipaddress accepts an octet: decimal digits, at most three, no leading
\* zero, at most 255
OctetOk(s) ==
    /\ s # <<>>
    /\ \A i \in DOMAIN s : s[i] \in Range(DIGITS)
    /\ Len(s) <= 3
    /\ ~(Len(s) > 1 /\ s[1] = "0")
    /\ int_of(s) <= 255

\* IPv4Address(s) does not raise
AddressOk(s) ==
    /\ s # <<>>
    /\ Len(split(s, ".")) = 4
    /\ \A i \in 1..4 : OctetOk(split(s, ".")[i])

\* the four octets of a valid address
Octets(s) == [i \in 1..4 |-> int_of(split(s, ".")[i])]

\* the octets of the netmask of a prefix length
MaskOctets(p) ==
    [i \in 1..4 |->
       LET bits == IF p - 8 * (i - 1) < 0 THEN 0
                   ELSE IF p - 8 * (i - 1) > 8 THEN 8
                   ELSE p - 8 * (i - 1)
       IN  256 - 2 ^ (8 - bits)]

NoPrefix == 0 - 1

\* the prefix length a mask string stands for, NoPrefix when ipaddress
\* rejects it: a decimal prefix length up to 32, else a dotted netmask,
\* else a dotted hostmask
make_netmask(m) ==
    IF /\ m # <<>>
       /\ \A i \in DOMAIN m : m[i] \in Range(DIGITS)
       /\ Len(NoLeadingZeros(m)) <= 2
       /\ int_of(NoLeadingZeros(m)) <= 32
    THEN int_of(NoLeadingZeros(m))
    ELSE IF ~AddressOk(m) THEN NoPrefix
    ELSE LET o == Octets(m)
             inv == [i \in 1..4 |-> 255 - o[i]]
         IN  IF \E p \in 0..32 : MaskOctets(p) = o
             THEN CHOOSE p \in 0..32 : MaskOctets(p) = o
             ELSE IF \E p \in 0..32 : MaskOctets(p) = inv
             THEN CHOOSE p \in 0..32 : MaskOctets(p) = inv
             ELSE NoPrefix

\* ipaddress.ip_network(arg, strict=False): ok is FALSE when it raises
\* ValueError; otherwise the address given, the prefix length and the
\* network address (the address with its host bits cleared)
ip_network(arg) ==
    LET parts == split(arg, "/")
        bad == [ok |-> FALSE, address |-> <<0, 0, 0, 0>>, prefixlen |-> 0,
                network_address |-> <<0, 0, 0, 0>>]
    IN  IF Len(parts) > 2 \/ ~AddressOk(parts[1]) THEN bad
        ELSE LET p == IF Len(parts) = 2 THEN make_netmask(parts[2]) ELSE 32
                 a == Octets(parts[1])
             IN  IF p = NoPrefix THEN bad
                 ELSE [ok |-> TRUE, address |-> a, prefixlen |-> p,
                       network_address |->
                          [i \in 1..4 |->
                             a[i] - (a[i] % (256 - MaskOctets(p)[i]))]]

\* the address k places after a
AddOffset(a, k) ==
    LET v4 == a[4] + k
        v3 == a[3] + (v4 \div 256)
        v2 == a[2] + (v3 \div 256)
        v1 == a[1] + (v2 \div 256)
    IN  <<v1 % 256, v2 % 256, v3 % 256, v4 % 256>>

\* variant of hosts that also lists the network address of the block
hosts_with_network(net) ==
    IF net.prefixlen = 32 THEN <<net.address>>
    ELSE IF net.prefixlen = 31
    THEN <<net.network_address, AddOffset(net.network_address, 1)>>
    ELSE [k \in 1..(2 ^ (32 - net.prefixlen) - 1) |->
            AddOffset(net.network_address, k - 1)]

\* net.hosts(): the address itself for a /32, both addresses for a /31,
\* otherwise every address between the network and the broadcast address
hosts(net) ==
    IF net.prefixlen = 32 THEN <<net.address>>
    ELSE IF net.prefixlen = 31
    THEN <<net.network_address, AddOffset(net.network_address, 1)>>
    ELSE [k \in 1..(2 ^ (32 - net.prefixlen) - 2) |->
            AddOffset(net.network_address, k)]

\* str(ip)
format_address(a) ==
    str_of(a[1]) \o <<".">> \o str_of(a[2]) \o <<".">> \o str_of(a[3])
    \o <<".">> \o str_of(a[4])

\* Path(path).read_text() raises: no such file
ReadTextRaises(files, path) == \A f \in files : f.path # path

\* Path(path).read_text()
read_text(files, path) == (CHOOSE f \in files : f.path = path).content

(***************************************************************************)
(* Inputs of expand_targets and files on disk.                             *)
(***************************************************************************)
ADDR == <<"1", "0", ".", "0", ".", "0", ".", "5">>

TargetChunks ==
    { ADDR,
      <<"/", "2", "5", "5", ".", "2", "5", "5", ".", "2", "5", "5", ".", "2",
        "5", "2">>,
      <<"/", "3", "0">>, <<"/", "3", "1">>,
      <<"/", "3", "2">>, <<"/", "2", "9">>, <<"/", "2", "3">>,
      <<"/", "3", "3">>, <<",">>, <<" ">>, <<"@">>, <<"t">> }

\* what the disk holds: nothing, or a file t of targets
TargetFiles ==
    { {},
      {[path |-> <<"t">>, content |-> ADDR \o <<"\n", "t", "\n">>]},
      {[path |-> <<"t">>,
        content |-> <<" ", "t", " ", "\n", "\n">> \o ADDR]} }

(***************************************************************************)
(* expand_targets(arg), one action per branch.                             *)
(***************************************************************************)
\* arg = arg.strip()
StripArg ==
    /\ tg_pc = "strip"
    /\ tg_arg' = strip(tg_arg)
    /\ tg_pc' = "dispatch"
    /\ UNCHANGED <<tg_input, tg_files, tg_out, clvars, prvars, anvars,
                   ixvars, bavars>>

\* file mode: the non-empty stripped lines of the file; read_text is not
\* inside a try block
FileMode ==
    /\ tg_pc = "dispatch"
    /\ tg_arg # <<>> /\ tg_arg[1] = "@"
    /\ IF ReadTextRaises(tg_files, Tail(tg_arg))
       THEN /\ tg_pc' = "raised"
            /\ UNCHANGED tg_out
       ELSE /\ tg_out' =
                 StrippedNonEmpty(splitlines(read_text(tg_files,
                                                       Tail(tg_arg))))
            /\ tg_pc' = "returned"
    /\ UNCHANGED <<tg_input, tg_arg, tg_files, clvars, prvars, anvars,
                   ixvars, bavars>>

\* comma mode: the non-empty stripped tokens
CommaMode ==
    /\ tg_pc = "dispatch"
    /\ ~(tg_arg # <<>> /\ tg_arg[1] = "@")
    /\ "," \in Range(tg_arg)
    /\ tg_out' = StrippedNonEmpty(split(tg_arg, ","))
    /\ tg_pc' = "returned"
    /\ UNCHANGED <<tg_input, tg_arg, tg_files, clvars, prvars, anvars,
                   ixvars, bavars>>

\* the argument is a network or an address: its hosts as strings
NetworkMode ==
    /\ tg_pc = "dispatch"
    /\ ~(tg_arg # <<>> /\ tg_arg[1] = "@")
    /\ "," \notin Range(tg_arg)
    /\ ip_network(tg_arg).ok
    /\ tg_out' = LET h == hosts(ip_network(tg_arg))
                 IN  [i \in DOMAIN h |-> format_address(h[i])]
    /\ tg_pc' = "returned"
    /\ UNCHANGED <<tg_input, tg_arg, tg_files, clvars, prvars, anvars,
                   ixvars, bavars>>

\* ip_network raised ValueError: the argument itself
SingleFallback ==
    /\ tg_pc = "dispatch"
    /\ ~(tg_arg # <<>> /\ tg_arg[1] = "@")
    /\ "," \notin Range(tg_arg)
    /\ ~ip_network(tg_arg).ok
    /\ tg_out' = <<tg_arg>>
    /\ tg_pc' = "returned"
    /\ UNCHANGED <<tg_input, tg_arg, tg_files, clvars, prvars, anvars,
                   ixvars, bavars>>

TgNext ==
    \/ StripArg
    \/ FileMode
    \/ CommaMode
    \/ NetworkMode
    \/ SingleFallback

(***************************************************************************)
(* The batches: run_dnp3_all.main and s7_analyze.main over the capture     *)
(* files of a folder, modbus_scan.scan_targets over a list of targets and  *)
(* the reports modbus_scan.main writes from what it returns.  ba_log holds *)
(* the messages about a batch that does not start and about failed units.  *)
(*                                                                         *)
(* probe_host as a function of what the transport does during the probe:   *)
(* env.ctor and env.connect say how the constructor and connect() end,     *)
(* env.reads how each of the four reads ends, env.ms the time measured.    *)
(***************************************************************************)
MaxUnits == 3

\* variant of AfterRead whose successful read stores the window without
\* raising unauthenticated_read
AfterRead_window_only(res, w, o) ==
    IF o \in {"data", "empty_list", "none_field"}
    THEN [res EXCEPT !.reads[w] = PyList(StoredList(o))]
    ELSE IF o = "throws"
    THEN [res EXCEPT !.errors = Append(@, w \o "_read_error: timed out")]
    ELSE res

\* one read try block of probe_host applied to the result
AfterRead(res, w, o) ==
    IF o \in {"data", "empty_list", "none_field"} THEN SuccessfulRead(res, w, o)
    ELSE IF o = "throws"
    THEN [res EXCEPT !.errors = Append(@, w \o "_read_error: timed out")]
    ELSE res

\* the four reads in the order of the code
RECURSIVE AfterReads(_, _, _)
AfterReads(res, ws, reads) ==
    IF ws = <<>> THEN res
    ELSE AfterReads(AfterRead(res, Head(ws), reads[Head(ws)]), Tail(ws),
                    reads)

\* the dictionary probe_host returns (ip, port and unit_id aside)
probe_host(env) ==
    LET failed(msg) == [InitialResult EXCEPT !.errors = <<msg>>]
        body ==
          IF env.ctor = "throws" THEN failed("probe_error: timed out")
          ELSE IF env.connect = "false" THEN failed("Connection failed")
          ELSE IF env.connect = "throws"
          THEN failed("probe_error: timed out")
          ELSE LET read == AfterReads([InitialResult EXCEPT
                                         !.reachable = TRUE],
                                      WINDOWS, env.reads)
               IN  IF windows_with_data(read.reads) >= 2
                   THEN [read EXCEPT !.exposure.broad_register_access = TRUE]
                   ELSE read
    IN  [body EXCEPT !.latency_ms = [t |-> "float", v |-> env.ms]]

\* the ProbeResult of a target
ProbeResult(ip, env) ==
    LET r == probe_host(env)
    IN  [ip |-> ip, reachable |-> r.reachable, latency_ms |-> r.latency_ms,
         reads |-> r.reads, exposure |-> r.exposure, errors |-> r.errors]

AllReads(o) == [w \in Range(WINDOWS) |-> o]

\* what a target can do to its probe
ScanEnvs ==
    { [ctor |-> "throws", connect |-> "true", reads |-> AllReads("data"),
       ms |-> 0],
      [ctor |-> "ok", connect |-> "false", reads |-> AllReads("data"),
       ms |-> 0],
      [ctor |-> "ok", connect |-> "throws", reads |-> AllReads("data"),
       ms |-> MaxLatencyMs] }
    \cup { [ctor |-> "ok", connect |-> "true", reads |-> r, ms |-> 0] :
             r \in { AllReads("data"),
                     AllReads("throws"),
                     AllReads("error_response"),
                     [AllReads("error_response") EXCEPT !["coils"] = "data"],
                     [AllReads("io_exception") EXCEPT
                        !["coils"] = "empty_list",
                        !["holding_registers"] = "data"],
                     [AllReads("throws") EXCEPT
                        !["discrete_inputs"] = "data",
                        !["input_registers"] = "data"] } }

InitialAggregate ==
    [results |-> <<>>,
     summary |-> [reachable |-> 0, unauthenticated_read |-> 0,
                  broad_register_access |-> 0]]

\* variant of AddToSummary that tests the third flag in an elif of the
\* second
AddToSummary_elif(summ, res) ==
    [reachable |-> summ.reachable + (IF res.reachable THEN 1 ELSE 0),
     unauthenticated_read |->
        summ.unauthenticated_read
        + (IF res.exposure.unauthenticated_read THEN 1 ELSE 0),
     broad_register_access |->
        summ.broad_register_access
        + (IF ~res.exposure.unauthenticated_read
              /\ res.exposure.broad_register_access THEN 1 ELSE 0)]

\* the three `if res[...]: summary[...] += 1` of scan_targets
AddToSummary(summ, res) ==
    [reachable |-> summ.reachable + (IF res.reachable THEN 1 ELSE 0),
     unauthenticated_read |->
        summ.unauthenticated_read
        + (IF res.exposure.unauthenticated_read THEN 1 ELSE 0),
     broad_register_access |->
        summ.broad_register_access
        + (IF res.exposure.broad_register_access THEN 1 ELSE 0)]

\* the suffixes of the files a runner takes from the capture folder
CAPTURE_SUFFIXES == {".pcap", ".pcapng"}

\* the listings of a capture folder: the i-th entry is named after its
\* position and has a capture suffix or another one
CaptureListings ==
    { [i \in DOMAIN es |-> [stem |-> i, ext |-> es[i]]] :
        es \in SeqsUpTo(CAPTURE_SUFFIXES \cup {".txt"}, MaxUnits) }

\* how the processing of one capture ends
FATES == {"ok", "analyze_raises", "json_raises", "html_raises"}

\* the report files one capture leaves behind
WrittenBy(entry, fate) ==
    CASE fate = "ok" -> {[stem |-> entry.stem, ext |-> ".json"],
                         [stem |-> entry.stem, ext |-> ".html"]}
      [] fate = "html_raises" -> {[stem |-> entry.stem, ext |-> ".json"]}
      [] OTHER -> {}

\* the indices of a listing whose suffix is a capture suffix, ascending
RECURSIVE CaptureIndices(_, _)
CaptureIndices(listing, i) ==
    IF i > Len(listing) THEN <<>>
    ELSE (IF listing[i].ext \in CAPTURE_SUFFIXES THEN <<i>> ELSE <<>>)
         \o CaptureIndices(listing, i + 1)

BATCH_RUNNERS == {"run_dnp3_all", "s7_analyze"}

\* main of a batch runner up to its loop: the folder check, the listing
\* and the empty-list check
RunnerStart ==
    /\ ba_runner \in BATCH_RUNNERS
    /\ ba_pc = "start"
    /\ IF ~ba_dir
       THEN /\ ba_log' = Append(ba_log, [event |-> "no_folder", unit |-> 0, why |-> ""])
            /\ ba_pc' = "done"
            /\ UNCHANGED ba_queue
       ELSE LET pcaps == CaptureIndices(ba_units, 1)
            IN  IF pcaps = <<>>
                THEN /\ ba_log' = Append(ba_log, [event |-> "no_pcaps", unit |-> 0, why |-> ""])
                     /\ ba_pc' = "done"
                     /\ UNCHANGED ba_queue
                ELSE /\ ba_queue' = pcaps
                     /\ ba_pc' = "loop"
                     /\ UNCHANGED ba_log
    /\ UNCHANGED <<ba_runner, ba_dir, ba_units, ba_i, ba_attempts, ba_written,
                   ba_inflight, aggregate, clvars, prvars, anvars, ixvars,
                   tgvars>>

\* variant of RunnerFile without the try: an exception leaves main
RunnerFile_uncaught ==
    /\ ba_runner \in BATCH_RUNNERS
    /\ ba_pc = "loop"
    /\ ba_i <= Len(ba_queue)
    /\ \E fate \in FATES :
          /\ ba_written' =
                ba_written \cup WrittenBy(ba_units[ba_queue[ba_i]], fate)
          /\ IF fate = "ok"
             THEN /\ ba_i' = ba_i + 1
                  /\ UNCHANGED <<ba_log, ba_pc>>
             ELSE /\ ba_pc' = "raised"
                  /\ UNCHANGED <<ba_log, ba_i>>
    /\ ba_attempts' = [ba_attempts EXCEPT ![ba_queue[ba_i]] = @ + 1]
    /\ UNCHANGED <<ba_runner, ba_dir, ba_units, ba_queue, ba_inflight,
                   aggregate, clvars, prvars, anvars, ixvars, tgvars>>

\* one iteration of the loop of a batch runner: analyze, write the JSON
\* report, write the HTML report, all inside one try whose except clause
\* logs the failure
RunnerFile ==
    /\ ba_runner \in BATCH_RUNNERS
    /\ ba_pc = "loop"
    /\ ba_i <= Len(ba_queue)
    /\ \E fate \in FATES :
          /\ ba_written' =
                ba_written \cup WrittenBy(ba_units[ba_queue[ba_i]], fate)
          /\ ba_log' = IF fate = "ok" THEN ba_log
                       ELSE Append(ba_log, [event |-> "failed",
                                            unit |-> ba_queue[ba_i],
                                            why |-> fate])
    /\ ba_attempts' = [ba_attempts EXCEPT ![ba_queue[ba_i]] = @ + 1]
    /\ ba_i' = ba_i + 1
    /\ UNCHANGED <<ba_runner, ba_dir, ba_units, ba_queue, ba_pc, ba_inflight,
                   aggregate, clvars, prvars, anvars, ixvars, tgvars>>

\* the loop of a batch runner is over
RunnerDone ==
    /\ ba_runner \in BATCH_RUNNERS
    /\ ba_pc = "loop"
    /\ ba_i > Len(ba_queue)
    /\ ba_pc' = "done"
    /\ UNCHANGED <<ba_runner, ba_dir, ba_units, ba_queue, ba_i, ba_attempts,
                   ba_written, ba_log, ba_inflight, aggregate, clvars, prvars,
                   anvars, ixvars, tgvars>>

\* the loop of scan_targets reaches `res = probe_host(ip, ...)`: the call
\* is made, and what the target does to the probe is decided
ScanProbeCall ==
    /\ ba_runner = "scan_targets"
    /\ ba_pc = "loop"
    /\ ba_i <= Len(ba_units)
    /\ \E env \in ScanEnvs :
          ba_inflight' = ba_inflight \cup {[unit |-> ba_i, env |-> env]}
    /\ ba_attempts' = [ba_attempts EXCEPT ![ba_i] = @ + 1]
    /\ ba_pc' = "probing"
    /\ UNCHANGED <<ba_runner, ba_dir, ba_units, ba_queue, ba_i, ba_written,
                   ba_log, aggregate, clvars, prvars, anvars, ixvars, tgvars>>

\* the rest of the iteration: probe_host returns, the result is appended
\* and the three counters are updated
ScanTarget ==
    /\ ba_runner = "scan_targets"
    /\ ba_pc = "probing"
    /\ \E call \in ba_inflight :
          /\ call.unit = ba_i
          /\ LET res == ProbeResult(ba_units[ba_i], call.env)
             IN  aggregate' =
                   [results |-> Append(aggregate.results, res),
                    summary |-> AddToSummary(aggregate.summary, res)]
          /\ ba_inflight' = ba_inflight \ {call}
    /\ ba_i' = ba_i + 1
    /\ ba_pc' = "loop"
    /\ UNCHANGED <<ba_runner, ba_dir, ba_units, ba_queue, ba_attempts,
                   ba_written, ba_log, clvars, prvars, anvars, ixvars, tgvars>>

\* scan_targets returns the aggregate
ScanReturn ==
    /\ ba_runner = "scan_targets"
    /\ ba_pc = "loop"
    /\ ba_i > Len(ba_units)
    /\ ba_pc' = "done"
    /\ UNCHANGED <<ba_runner, ba_dir, ba_units, ba_queue, ba_i, ba_attempts,
                   ba_written, ba_log, ba_inflight, aggregate, clvars, prvars,
                   anvars, ixvars, tgvars>>

\* modbus_scan.main after scan_targets has returned: the JSON report, then
\* the HTML report, whatever the list of targets was; an exception of a
\* write leaves main
MainReports ==
    /\ ba_runner = "scan_targets"
    /\ ba_pc = "done"
    /\ \E fate \in FATES \ {"analyze_raises"} :
          /\ ba_written' = ba_written \cup WrittenBy([stem |-> 0], fate)
          /\ ba_pc' = IF fate = "ok" THEN "reported" ELSE "main_raised"
    /\ UNCHANGED <<ba_runner, ba_dir, ba_units, ba_queue, ba_i, ba_attempts,
                   ba_log, ba_inflight, aggregate, clvars, prvars, anvars,
                   ixvars, tgvars>>

BaNext ==
    \/ RunnerStart
    \/ RunnerFile
    \/ RunnerDone
    \/ ScanProbeCall
    \/ ScanTarget
    \/ ScanReturn
    \/ MainReports

(***************************************************************************)
(* Specifications.                                                         *)
(***************************************************************************)
\* one classifier call on one packet; no probe, no capture
ClassifyInit ==
    /\ cl_pkt \in ClassifierPkts
    /\ cl_call = ""
    /\ cl_ret = NoRet
    /\ cl_pc = "ready"
    /\ result = InitialResult
    /\ client = "unbound"
    /\ calls = <<>>
    /\ outcome = [w \in Range(WINDOWS) |-> "not_attempted"]
    /\ pr_pc = "idle"
    /\ protocol = ""
    /\ packets = <<>>
    /\ idx = 1
    /\ summary = InitialSummary
    /\ results = <<>>
    /\ report = InitialSummary
    /\ an_pc = "idle"
    /\ ix_fn = ""
    /\ ix_dir = FALSE
    /\ folder = <<>>
    /\ ix_i = 1
    /\ ix_pc = "idle"
    /\ totals = ZeroTotals
    /\ reports = <<>>
    /\ warnings = <<>>
    /\ skipped = {}
    /\ chart = EmptyChart
    /\ table = <<>>
    /\ tg_input = <<>>
    /\ tg_arg = <<>>
    /\ tg_files = {}
    /\ tg_out = <<>>
    /\ tg_pc = "idle"
    /\ ba_runner = ""
    /\ ba_dir = FALSE
    /\ ba_units = <<>>
    /\ ba_queue = <<>>
    /\ ba_i = 1
    /\ ba_pc = "idle"
    /\ ba_attempts = <<>>
    /\ ba_written = {}
    /\ ba_log = <<>>
    /\ ba_inflight = {}
    /\ aggregate = InitialAggregate

\* one probe about to start
ProbeInit ==
    /\ cl_pkt = Pkt("", 0, 0, None, None, FALSE, <<>>)
    /\ cl_call = ""
    /\ cl_ret = NoRet
    /\ cl_pc = "idle"
    /\ result = InitialResult
    /\ client = "unbound"
    /\ calls = <<>>
    /\ outcome = [w \in Range(WINDOWS) |-> "not_attempted"]
    /\ pr_pc = "construct"
    /\ protocol = ""
    /\ packets = <<>>
    /\ idx = 1
    /\ summary = InitialSummary
    /\ results = <<>>
    /\ report = InitialSummary
    /\ an_pc = "idle"
    /\ ix_fn = ""
    /\ ix_dir = FALSE
    /\ folder = <<>>
    /\ ix_i = 1
    /\ ix_pc = "idle"
    /\ totals = ZeroTotals
    /\ reports = <<>>
    /\ warnings = <<>>
    /\ skipped = {}
    /\ chart = EmptyChart
    /\ table = <<>>
    /\ tg_input = <<>>
    /\ tg_arg = <<>>
    /\ tg_files = {}
    /\ tg_out = <<>>
    /\ tg_pc = "idle"
    /\ ba_runner = ""
    /\ ba_dir = FALSE
    /\ ba_units = <<>>
    /\ ba_queue = <<>>
    /\ ba_i = 1
    /\ ba_pc = "idle"
    /\ ba_attempts = <<>>
    /\ ba_written = {}
    /\ ba_log = <<>>
    /\ ba_inflight = {}
    /\ aggregate = InitialAggregate

\* one capture read by rdpcap, the fold about to start
AnalyzeInit ==
    /\ cl_pkt = Pkt("", 0, 0, None, None, FALSE, <<>>)
    /\ cl_call = ""
    /\ cl_ret = NoRet
    /\ cl_pc = "idle"
    /\ result = InitialResult
    /\ client = "unbound"
    /\ calls = <<>>
    /\ outcome = [w \in Range(WINDOWS) |-> "not_attempted"]
    /\ pr_pc = "idle"
    /\ protocol \in {"dnp3", "s7"}
    /\ packets \in SeqsUpTo(AnalyzerPkts, MaxFrames)
    /\ idx = 1
    /\ summary = InitialSummary
    /\ results = <<>>
    /\ report = InitialSummary
    /\ an_pc = "loop"
    /\ ix_fn = ""
    /\ ix_dir = FALSE
    /\ folder = <<>>
    /\ ix_i = 1
    /\ ix_pc = "idle"
    /\ totals = ZeroTotals
    /\ reports = <<>>
    /\ warnings = <<>>
    /\ skipped = {}
    /\ chart = EmptyChart
    /\ table = <<>>
    /\ tg_input = <<>>
    /\ tg_arg = <<>>
    /\ tg_files = {}
    /\ tg_out = <<>>
    /\ tg_pc = "idle"
    /\ ba_runner = ""
    /\ ba_dir = FALSE
    /\ ba_units = <<>>
    /\ ba_queue = <<>>
    /\ ba_i = 1
    /\ ba_pc = "idle"
    /\ ba_attempts = <<>>
    /\ ba_written = {}
    /\ ba_log = <<>>
    /\ ba_inflight = {}
    /\ aggregate = InitialAggregate

\* one run of collect_summary or of an index script on one report folder
IndexInit ==
    /\ cl_pkt = Pkt("", 0, 0, None, None, FALSE, <<>>)
    /\ cl_call = ""
    /\ cl_ret = NoRet
    /\ cl_pc = "idle"
    /\ result = InitialResult
    /\ client = "unbound"
    /\ calls = <<>>
    /\ outcome = [w \in Range(WINDOWS) |-> "not_attempted"]
    /\ pr_pc = "idle"
    /\ protocol = ""
    /\ packets = <<>>
    /\ idx = 1
    /\ summary = InitialSummary
    /\ results = <<>>
    /\ report = InitialSummary
    /\ an_pc = "idle"
    /\ ix_fn \in {"collect_summary", "build_dnp3_index", "build_s7_index"}
    /\ ix_dir \in BOOLEAN
    /\ folder \in (IF ix_dir THEN Folders ELSE {<<>>})
    /\ ix_i = 1
    /\ ix_pc = IF ix_fn = "collect_summary" THEN "collect_loop"
               ELSE "load_loop"
    /\ totals = ZeroTotals
    /\ reports = <<>>
    /\ warnings = <<>>
    /\ skipped = {}
    /\ chart = EmptyChart
    /\ table = <<>>
    /\ tg_input = <<>>
    /\ tg_arg = <<>>
    /\ tg_files = {}
    /\ tg_out = <<>>
    /\ tg_pc = "idle"
    /\ ba_runner = ""
    /\ ba_dir = FALSE
    /\ ba_units = <<>>
    /\ ba_queue = <<>>
    /\ ba_i = 1
    /\ ba_pc = "idle"
    /\ ba_attempts = <<>>
    /\ ba_written = {}
    /\ ba_log = <<>>
    /\ ba_inflight = {}
    /\ aggregate = InitialAggregate

\* one call of expand_targets on one argument
TargetsInit ==
    /\ cl_pkt = Pkt("", 0, 0, None, None, FALSE, <<>>)
    /\ cl_call = ""
    /\ cl_ret = NoRet
    /\ cl_pc = "idle"
    /\ result = InitialResult
    /\ client = "unbound"
    /\ calls = <<>>
    /\ outcome = [w \in Range(WINDOWS) |-> "not_attempted"]
    /\ pr_pc = "idle"
    /\ protocol = ""
    /\ packets = <<>>
    /\ idx = 1
    /\ summary = InitialSummary
    /\ results = <<>>
    /\ report = InitialSummary
    /\ an_pc = "idle"
    /\ ix_fn = ""
    /\ ix_dir = FALSE
    /\ folder = <<>>
    /\ ix_i = 1
    /\ ix_pc = "idle"
    /\ totals = ZeroTotals
    /\ reports = <<>>
    /\ warnings = <<>>
    /\ skipped = {}
    /\ chart = EmptyChart
    /\ table = <<>>
    /\ tg_input \in {Concat(c) : c \in SeqsUpTo(TargetChunks, MaxTargetChunks)}
    /\ tg_arg = tg_input
    /\ tg_files \in TargetFiles
    /\ tg_out = <<>>
    /\ tg_pc = "strip"
    /\ ba_runner = ""
    /\ ba_dir = FALSE
    /\ ba_units = <<>>
    /\ ba_queue = <<>>
    /\ ba_i = 1
    /\ ba_pc = "idle"
    /\ ba_attempts = <<>>
    /\ ba_written = {}
    /\ ba_log = <<>>
    /\ ba_inflight = {}
    /\ aggregate = InitialAggregate

\* one batch about to start: a runner on a capture folder, or scan_targets on
\* a list of targets
BatchInit ==
    /\ cl_pkt = Pkt("", 0, 0, None, None, FALSE, <<>>)
    /\ cl_call = ""
    /\ cl_ret = NoRet
    /\ cl_pc = "idle"
    /\ result = InitialResult
    /\ client = "unbound"
    /\ calls = <<>>
    /\ outcome = [w \in Range(WINDOWS) |-> "not_attempted"]
    /\ pr_pc = "idle"
    /\ protocol = ""
    /\ packets = <<>>
    /\ idx = 1
    /\ summary = InitialSummary
    /\ results = <<>>
    /\ report = InitialSummary
    /\ an_pc = "idle"
    /\ ix_fn = ""
    /\ ix_dir = FALSE
    /\ folder = <<>>
    /\ ix_i = 1
    /\ ix_pc = "idle"
    /\ totals = ZeroTotals
    /\ reports = <<>>
    /\ warnings = <<>>
    /\ skipped = {}
    /\ chart = EmptyChart
    /\ table = <<>>
    /\ tg_input = <<>>
    /\ tg_arg = <<>>
    /\ tg_files = {}
    /\ tg_out = <<>>
    /\ tg_pc = "idle"
    /\ ba_runner \in BATCH_RUNNERS \cup {"scan_targets"}
    /\ ba_dir \in (IF ba_runner = "scan_targets" THEN {TRUE} ELSE BOOLEAN)
    /\ ba_units \in (IF ba_runner = "scan_targets"
                  THEN SeqsUpTo({"10.0.0.5", "10.0.0.6"}, MaxUnits)
                  ELSE IF ba_dir THEN CaptureListings ELSE {<<>>})
    /\ ba_queue = <<>>
    /\ ba_i = 1
    /\ ba_pc = IF ba_runner = "scan_targets" THEN "loop" ELSE "start"
    /\ ba_attempts = [i \in DOMAIN ba_units |-> 0]
    /\ ba_written = {}
    /\ ba_log = <<>>
    /\ ba_inflight = {}
    /\ aggregate = InitialAggregate

SpecClassify == ClassifyInit /\ [][ClNext]_vars

SpecProbe == ProbeInit /\ [][PrNext]_vars

SpecAnalyze == AnalyzeInit /\ [][AnNext]_vars

SpecIndex == IndexInit /\ [][IxNext]_vars

SpecTargets == TargetsInit /\ [][TgNext]_vars

SpecBatch == BatchInit /\ [][BaNext]_vars

(***************************************************************************)
(* Properties of analyze_pcap (SpecAnalyze).                               *)
(***************************************************************************)
\* the operation name of a result record
Operation(r) == IF protocol = "dnp3" THEN r.function ELSE r.function_code

SuspectSet ==
    IF protocol = "dnp3"
    THEN {"Operate", "Write", "EnableUnsolicited", "ColdRestart",
          "WarmRestart", "ClearRestart"}
    ELSE {"WriteVar", "Start", "Stop", "DownloadBlock", "CopyRamToRom",
          "FirmwareUpdate"}

SuspectRecords == {i \in DOMAIN results : Operation(results[i]) \in SuspectSet}

\* C1: a unit is treated as suspect iff its operation name is in the
\* protocol's fixed suspect set: the suspect flag of every DNP3 record says
\* so, and suspect_functions is the number of result records whose operation
\* is in the set, during the fold and in the summary returned.
C1_SuspectIffInSet ==
    /\ protocol = "dnp3" =>
          \A i \in DOMAIN results :
              results[i].suspect <=> (results[i].function \in SuspectSet)
    /\ an_pc \in {"loop", "done"} =>
          summary.suspect_functions = Cardinality(SuspectRecords)
    /\ an_pc = "done" =>
          report.suspect_functions = Cardinality(SuspectRecords)

\* an S7Comm fold that met a DownloadBlock and a ReadVar record
C1_Witness ==
    /\ an_pc = "done"
    /\ protocol = "s7"
    /\ \E i \in DOMAIN results : results[i].function_code = "DownloadBlock"
    /\ \E i \in DOMAIN results : results[i].function_code = "ReadVar"
    /\ report.suspect_functions >= 1

\* C10: after the fold total_packets is the number of frames, the protocol
\* counter the number of result records, suspect_functions the number of
\* suspect records and unique_hosts the set of the records' source and
\* destination addresses; so suspect_functions <= protocol counter <=
\* total_packets.
C10_SummaryCounts ==
    an_pc = "done" =>
       /\ report.total_packets = Len(packets)
       /\ report.protocol_packets = Len(results)
       /\ report.suspect_functions = Cardinality(SuspectRecords)
       /\ report.unique_hosts =
             UNION {{results[i].src, results[i].dst} : i \in DOMAIN results}
       /\ report.suspect_functions <= report.protocol_packets
       /\ report.protocol_packets <= report.total_packets

\* three DNP3 records Write, Read, Operate between 10.0.0.1 and 10.0.0.2
C10_Witness ==
    /\ an_pc = "done"
    /\ protocol = "dnp3"
    /\ Len(results) = 3
    /\ results[1].function = "Write"
    /\ results[2].function = "Read"
    /\ results[3].function = "Operate"
    /\ report = [total_packets |-> 3, protocol_packets |-> 3,
                 suspect_functions |-> 2,
                 unique_hosts |-> {"10.0.0.1", "10.0.0.2"}]

\* the admission rule as documented: TCP or UDP with port 20000 for DNP3,
\* TCP with port 102 for S7Comm
DocumentedAdmission(pkt) ==
    IF protocol = "dnp3"
    THEN pkt.l4 \in {"TCP", "UDP"} /\ (pkt.sport = 20000 \/ pkt.dport = 20000)
    ELSE pkt.l4 = "TCP" /\ (pkt.sport = 102 \/ pkt.dport = 102)

\* C11: a frame is admitted exactly by its transport header and port, and
\* every admitted frame increments the protocol counter, also one without
\* application payload or with an unrecognized payload: the counter is the
\* number of frames seen so far that the port rule admits.
C11_AdmittedFramesCounted ==
    an_pc \in {"loop", "done"} =>
       summary.protocol_packets =
          Cardinality({i \in 1..(idx - 1) : DocumentedAdmission(packets[i])})

Permuted(pkts, pi) == [i \in DOMAIN pkts |-> pkts[pi[i]]]

MergeSummaries(a, b) ==
    [total_packets |-> a.total_packets + b.total_packets,
     protocol_packets |-> a.protocol_packets + b.protocol_packets,
     suspect_functions |-> a.suspect_functions + b.suspect_functions,
     unique_hosts |-> a.unique_hosts \cup b.unique_hosts]

\* C12: the summary analyze_pcap returns (counters and host set) is the
\* same for every permutation of the frames, and folding two shards of the
\* capture and merging them (counters summed, host sets united) gives the
\* summary of the whole capture.
C12_OrderIndependent ==
    an_pc = "done" =>
       /\ report = analyze_summary(protocol, packets)
       /\ \A pi \in Permutations(DOMAIN packets) :
             analyze_summary(protocol, Permuted(packets, pi)) = report
       /\ \A k \in 0..Len(packets) :
             MergeSummaries(
                analyze_summary(protocol, SubSeq(packets, 1, k)),
                analyze_summary(protocol, SubSeq(packets, k + 1, Len(packets))))
             = report

\* a capture of three frames with three different contributions was folded
C12_Witness ==
    /\ an_pc = "done"
    /\ Len(packets) = 3
    /\ Cardinality(Range(packets)) = 3
    /\ report.protocol_packets = 2
    /\ report.suspect_functions = 1
    /\ Cardinality(report.unique_hosts) >= 3

\* C13: unique_hosts of the summary holds no entry that stands for a missing
\* or empty address: every entry is a non-empty address that some frame of
\* the capture carries.
C13_NoNullHosts ==
    an_pc = "done" =>
       \A h \in report.unique_hosts :
          /\ ~Falsy(h)
          /\ \E i \in DOMAIN packets :
                packets[i].src = h \/ packets[i].dst = h

(***************************************************************************)
(* Properties of probe_host (SpecProbe).                                   *)
(***************************************************************************)
NonEmptyWindows ==
    {w \in Range(WINDOWS) :
        result.reads[w].t = "list" /\ result.reads[w].v # <<>>}

AbsentWindows == {w \in Range(WINDOWS) : result.reads[w] = PyNone}

SucceededReads ==
    {w \in Range(WINDOWS) :
        outcome[w] \in {"data", "empty_list", "none_field"}}

\* C5: in the ProbeResult returned, broad_register_access is true iff at
\* least two of the four read windows are non-empty lists.
C5_BroadIffTwoWindows ==
    pr_pc = "returned" =>
       (result.exposure.broad_register_access
          <=> Cardinality(NonEmptyWindows) >= 2)

\* two windows with values, one successful read without values, one error
C5_Witness ==
    /\ pr_pc = "returned"
    /\ Cardinality(NonEmptyWindows) = 2
    /\ \E w \in Range(WINDOWS) : result.reads[w] = PyList(<<>>)
    /\ AbsentWindows # {}
    /\ result.exposure.broad_register_access

\* C6 as stated: in the ProbeResult returned, unauthenticated_read is true
\* iff at least one of the four reads returned data, i.e. some window holds
\* returned values.
C6_UnauthIffDataReturned ==
    pr_pc = "returned" =>
       (result.exposure.unauthenticated_read <=> NonEmptyWindows # {})

\* C6 amended: in the ProbeResult returned, unauthenticated_read is true iff
\* at least one of the four reads succeeded (a response that is neither an
\* error response nor an I/O exception), whether or not it carried values;
\* that is, iff some window is a list, possibly empty.
C6_UnauthIffReadSucceeded ==
    pr_pc = "returned" =>
       /\ result.exposure.unauthenticated_read <=> SucceededReads # {}
       /\ result.exposure.unauthenticated_read
             <=> AbsentWindows # Range(WINDOWS)

\* a read succeeded without values and no window holds any
C6_Witness ==
    /\ pr_pc = "returned"
    /\ SucceededReads # {}
    /\ NonEmptyWindows = {}
    /\ result.exposure.unauthenticated_read

\* C7: probe_host never raises: whatever the constructor, connect, the
\* reads and close do, control never leaves it with an exception, it can
\* always proceed until it returns, and the result returned has every field,
\* the latency included.
C7_ProbeNeverRaises ==
    /\ pr_pc # "raised"
    /\ pr_pc \notin {"returned", "idle"} => ENABLED PrNext
    /\ pr_pc = "returned" =>
          /\ DOMAIN result =
                {"reachable", "latency_ms", "reads", "exposure", "errors"}
          /\ DOMAIN result.reads = Range(WINDOWS)
          /\ result.latency_ms.t = "float"

\* a probe returned although a read and close both threw
C7_Witness ==
    /\ pr_pc = "returned"
    /\ client = "close_failed"
    /\ \E w \in Range(WINDOWS) : outcome[w] = "throws"

\* C8: whenever a client was created, close has been invoked when
\* probe_host returns, once and after every other call on the transport.
C8_CloseOnEveryExit ==
    (pr_pc = "returned" /\ client # "unbound") =>
       /\ calls # <<>>
       /\ calls[Len(calls)] = "close"
       /\ Cardinality({i \in DOMAIN calls : calls[i] = "close"}) = 1

\* the early return after a refused connection closed the client
C8_Witness ==
    /\ pr_pc = "returned"
    /\ ~result.reachable
    /\ result.errors = <<"Connection failed">>
    /\ calls = <<"connect", "close">>

\* C9: for a reachable host every read that did not succeed is recorded as
\* an error string: the number of windows left absent is at most the number
\* of recorded errors.
C9_ReadFailuresRecorded ==
    (pr_pc = "returned" /\ result.reachable) =>
       Cardinality(AbsentWindows) <= Len(result.errors)


\* the read calls of the transport, in the order of the code
READ_CALLS ==
    <<"read_coils", "read_discrete_inputs", "read_holding_registers",
      "read_input_registers">>

\* the read calls made so far, in the order they were made
ReadsIssued == SelectSeq(calls, LAMBDA c : c \in Range(READ_CALLS))

\* C23: the reads of probe_host are issued only after connect() returned
\* true, in the order coils, discrete inputs, holding registers, input
\* registers, each at most once; once connect() has succeeded the probe
\* returns with all four issued exactly once, whatever each of them did;
\* nothing but connect, the four reads and close is ever called.
C23_ReadsOnceInOrderAfterConnect ==
    /\ Range(calls) \subseteq {"connect", "close"} \cup Range(READ_CALLS)
    /\ ReadsIssued = SubSeq(READ_CALLS, 1, Len(ReadsIssued))
    /\ ReadsIssued # <<>> => calls[1] = "connect" /\ result.reachable
    /\ ~result.reachable => ReadsIssued = <<>>
    /\ \A k \in DOMAIN WINDOWS :
          outcome[WINDOWS[k]] # "not_attempted" <=> k <= Len(ReadsIssued)
    /\ (pr_pc = "returned" /\ result.reachable) => ReadsIssued = READ_CALLS
    /\ (pr_pc = "returned" /\ "Connection failed" \in Range(result.errors))
          => calls = <<"connect", "close">>

\* a probe that has returned after a first read that threw, a second that
\* got an error response, a third that got a ModbusIOException and a
\* fourth that brought data
C23_Witness ==
    /\ pr_pc = "returned"
    /\ outcome["coils"] = "throws"
    /\ outcome["discrete_inputs"] = "error_response"
    /\ outcome["holding_registers"] = "io_exception"
    /\ outcome["input_registers"] = "data"
    /\ calls = <<"connect">> \o READ_CALLS \o <<"close">>

(***************************************************************************)
(* Properties of the index scripts (SpecIndex).                            *)
(***************************************************************************)
\* a summary file collect_summary can read to the end: a JSON object whose
\* summary, if any, is an object with numeric counters
WellFormedSummaryFile(f) ==
    /\ f.name.ext = ".json"
    /\ ~LoadRaises(f.content)
    /\ HasGet(f.content)
    /\ LET summ == Get(f.content, "summary", EmptyDict)
       IN  /\ HasGet(summ)
           /\ ~AddRaises(Get(summ, "total_packets", JInt(0)))
           /\ ~AddRaises(Get(summ, "suspect_functions", JInt(0)))

\* the sum of a counter over the well-formed files of a listing
RECURSIVE SumWellFormed(_, _)
SumWellFormed(files, key) ==
    IF files = <<>> THEN 0
    ELSE (IF WellFormedSummaryFile(Head(files))
          THEN Get(Get(Head(files).content, "summary", EmptyDict),
                   key, JInt(0)).v
          ELSE 0)
         + SumWellFormed(Tail(files), key)

\* C14: the triple collect_summary returns sums the well-formed summary
\* files only: a file that cannot be read or parsed adds nothing to the
\* number of captures processed, to the total packets or to the suspect
\* functions.
C14_MalformedContributeZero ==
    (ix_fn = "collect_summary" /\ ix_pc = "done") =>
        totals =
          [total_pcaps |->
              Cardinality({i \in DOMAIN folder :
                             WellFormedSummaryFile(folder[i])}),
           total_packets |-> SumWellFormed(folder, "total_packets"),
           suspect |-> SumWellFormed(folder, "suspect_functions")]

\* C15: with the report folder present, neither collect_summary nor
\* load_reports followed by build_index (DNP3 or S7) raises, whatever one
\* file of the folder contains.
C15_ConsolidationNeverRaises ==
    ix_dir => ix_pc # "raised"

\* C16: every file skipped because its try block raised has a warning
\* recorded for it, in load_reports and in collect_summary alike.
C16_SkippedFilesWarned ==
    \A i \in skipped : \E w \in DOMAIN warnings : warnings[w] = folder[i].name


(***************************************************************************)
(* Properties of expand_targets (SpecTargets).                             *)
(***************************************************************************)
\* the argument selects the file mode
IsFileArg == strip(tg_input) # <<>> /\ strip(tg_input)[1] = "@"

\* the argument is a comma-separated list
IsCommaArg == ~IsFileArg /\ "," \in Range(strip(tg_input))

\* the argument is a network or an address ipaddress accepts
IsNetworkArg ==
    ~IsFileArg /\ ~IsCommaArg /\ ip_network(strip(tg_input)).ok

\* the argument names a file that can be read
IsReadableFileArg ==
    IsFileArg /\ ~ReadTextRaises(tg_files, Tail(strip(tg_input)))

\* C17: expand_targets never raises, and an input that is neither a comma
\* list, nor a network, nor a readable '@file' (an '@' followed by a path
\* that does not exist, the empty string) comes back as the one-element
\* list holding that input.
C17_NeverRaisesFallsBack ==
    /\ tg_pc # "raised"
    /\ (tg_pc = "returned" /\ ~IsCommaArg /\ ~IsNetworkArg
        /\ ~IsReadableFileArg)
       => tg_out = <<strip(tg_input)>>

\* where the tokens of a comma list start: after position 0 and after
\* every comma
TokenStarts(s) == {0} \cup {i \in DOMAIN s : s[i] = ","}

\* the token that starts after position c, without surrounding blanks
TokenAfter(s, c) ==
    LET ends == {i \in DOMAIN s : s[i] = "," /\ i > c} \cup {Len(s) + 1}
    IN  strip(SubSeq(s, c + 1, Min(ends) - 1))

\* out holds the non-empty tokens of s in the order of s
HoldsTokensInOrder(out, s) ==
    LET ne == {c \in TokenStarts(s) : TokenAfter(s, c) # <<>>}
    IN  /\ Len(out) = Cardinality(ne)
        /\ \A c \in ne :
              out[Cardinality({d \in ne : d <= c})] = TokenAfter(s, c)

\* an address as a number and back, for addresses below 128.0.0.0
AddrInt(a) == ((a[1] * 256 + a[2]) * 256 + a[3]) * 256 + a[4]
Dotted(n) ==
    format_address(<<n \div 16777216, (n \div 65536) % 256,
                     (n \div 256) % 256, n % 256>>)

\* the addresses of the block of net strictly between its first (network)
\* and its last (broadcast) address, ascending
UsableHosts(net) ==
    LET size == 2 ^ (32 - net.prefixlen)
        base == AddrInt(net.address) - (AddrInt(net.address) % size)
    IN  [i \in 1..(size - 2) |-> Dotted(base + i)]

ProbeHostAgrees ==
    pr_pc = "returned" =>
        result =
          probe_host(
            [ctor |-> IF calls = <<>> THEN "throws" ELSE "ok",
             connect |-> IF result.reachable THEN "true"
                         ELSE IF result.errors = <<"Connection failed">>
                         THEN "false" ELSE "throws",
             reads |-> outcome,
             ms |-> result.latency_ms.v])

(***************************************************************************)
(* Properties of the batches (SpecBatch).                                  *)
(***************************************************************************)
\* the units of the batch: the capture files of the folder, or the targets
UnitsOfBatch ==
    IF ba_runner = "scan_targets" THEN DOMAIN ba_units
    ELSE {i \in DOMAIN ba_units : ba_units[i].ext \in CAPTURE_SUFFIXES}

\* C19: a failure local to one unit (an exception while a capture is
\* analyzed or its report written, a failing probe of a target) never ends
\* the batch: no unit is started twice, and when the batch is over every
\* unit has been started exactly once.
C19_EveryUnitAttemptedOnce ==
    /\ ba_pc # "raised"
    /\ \A i \in DOMAIN ba_units : ba_attempts[i] <= 1
    /\ ba_pc = "done" =>
          \A i \in DOMAIN ba_units :
             ba_attempts[i] = IF i \in UnitsOfBatch THEN 1 ELSE 0

\* a runner whose first capture failed before any report was written and
\* whose last capture was nevertheless processed to the end
C19_Witness ==
    /\ ba_runner \in BATCH_RUNNERS
    /\ ba_pc = "done"
    /\ Cardinality(UnitsOfBatch) >= 2
    /\ \E e \in DOMAIN ba_log :
          /\ ba_log[e].event = "failed"
          /\ ba_log[e].unit = Min(UnitsOfBatch)
          /\ \A f \in ba_written : f.stem # ba_log[e].unit
    /\ \E u \in UnitsOfBatch :
          /\ u > Min(UnitsOfBatch)
          /\ [stem |-> u, ext |-> ".html"] \in ba_written

\* C20: while scan_targets runs and when it returns, results holds one
\* ProbeResult per target probed so far, in target order, and each of the
\* three summary counters equals the number of results whose flag is true;
\* at the return no target is without a result.
C20_OneResultPerTargetCountersMatch ==
    ba_runner = "scan_targets" =>
        LET rs == aggregate.results
        IN  /\ Len(rs) = ba_i - 1
            /\ \A i \in DOMAIN rs : rs[i].ip = ba_units[i]
            /\ ba_pc = "done" => Len(rs) = Len(ba_units)
            /\ aggregate.summary.reachable =
                 Cardinality({i \in DOMAIN rs : rs[i].reachable})
            /\ aggregate.summary.unauthenticated_read =
                 Cardinality({i \in DOMAIN rs :
                                rs[i].exposure.unauthenticated_read})
            /\ aggregate.summary.broad_register_access =
                 Cardinality({i \in DOMAIN rs :
                                rs[i].exposure.broad_register_access})

\* a finished scan of three targets: one unreachable, one readable in a
\* single window, one readable in several
C20_Witness ==
    /\ ba_runner = "scan_targets"
    /\ ba_pc = "done"
    /\ Len(aggregate.results) = 3
    /\ aggregate.summary.reachable = 2
    /\ aggregate.summary.unauthenticated_read = 2
    /\ aggregate.summary.broad_register_access = 1

\* a batch that cannot start: a scan whose expanded target list is empty, a
\* runner whose capture folder is missing
CannotStart ==
    \/ ba_runner = "scan_targets" /\ ba_units = <<>>
    \/ ba_runner \in BATCH_RUNNERS /\ ~ba_dir

\* C21: a batch that cannot start (empty expanded target list of the scan,
\* missing capture source of a runner) writes no JSON or HTML report at any
\* moment, and when it is over it has been reported exactly once at batch
\* level.
C21_NoOutputWhenBatchCannotStart ==
    CannotStart =>
        /\ ba_written = {}
        /\ ba_pc \in {"done", "reported", "main_raised"} => Len(ba_log) = 1

\* the part of C21 the runners satisfy: a missing capture folder is
\* reported once and nothing is written
C21_RunnersOnly ==
    (ba_runner \in BATCH_RUNNERS /\ ~ba_dir) =>
        /\ ba_written = {}
        /\ ba_pc = "done" => Len(ba_log) = 1 /\ ba_log[1].event = "no_folder"

\* a scan of an empty target list that has written both of its reports
C21_EmptyScanWroteReports ==
    /\ ba_runner = "scan_targets"
    /\ ba_units = <<>>
    /\ ba_pc = "reported"
    /\ ba_written = {[stem |-> 0, ext |-> ".json"],
                     [stem |-> 0, ext |-> ".html"]}
    /\ ba_log = <<>>

\* a probe that blocks until its timeout: the constructor, connect() or a
\* read ends with "timed out"
Stalled(env) ==
    \/ env.ctor = "throws"
    \/ env.connect = "throws"
    \/ \E w \in Range(WINDOWS) : env.reads[w] = "throws"

\* C22: a stalled probe does not block the probes of the other targets:
\* whenever the probe of a target is in flight and stalled and a later
\* target has not been probed yet, the probe of a later target can start.
C22_StalledProbeDoesNotBlock ==
    \A call \in ba_inflight :
        (Stalled(call.env) /\ call.unit < Len(ba_units)) =>
            ENABLED ScanProbeCall

\* what scan_targets does instead: at most one probe is in flight, and no
\* later target is started before it has returned
ScanIsSequential ==
    /\ Cardinality(ba_inflight) <= 1
    /\ \A call \in ba_inflight :
          /\ call.unit = ba_i
          /\ \A j \in DOMAIN ba_units : j > call.unit => ba_attempts[j] = 0

\* the flags of one result dictionary of probe_host agree with each other
FlagsConsistent(r) ==
    /\ r.exposure.broad_register_access => r.exposure.unauthenticated_read
    /\ r.exposure.unauthenticated_read => r.reachable
    /\ ~r.reachable =>
          /\ \A w \in Range(WINDOWS) : r.reads[w] = PyNone
          /\ ~r.exposure.unauthenticated_read
          /\ ~r.exposure.broad_register_access

\* C24: in the result probe_host builds and in every result of a scan,
\* broad_register_access implies unauthenticated_read, which implies
\* reachable, and an unreachable target has no read window and no exposure
\* flag; so in the summary of a scan broad_register_access <=
\* unauthenticated_read <= reachable <= number of targets.
C24_FlagsConsistent ==
    /\ FlagsConsistent(result)
    /\ \A i \in DOMAIN aggregate.results :
          FlagsConsistent(aggregate.results[i])
    /\ aggregate.summary.broad_register_access
          <= aggregate.summary.unauthenticated_read
    /\ aggregate.summary.unauthenticated_read <= aggregate.summary.reachable
    /\ aggregate.summary.reachable <= Len(aggregate.results)
    /\ Len(aggregate.results) <= Len(ba_units)

\* a finished scan of three targets: one unreachable, one reachable whose
\* reads all failed, one readable in several windows
C24_Witness ==
    /\ ba_runner = "scan_targets"
    /\ ba_pc = "done"
    /\ Len(aggregate.results) = 3
    /\ ~aggregate.results[1].reachable
    /\ aggregate.results[2].reachable
    /\ ~aggregate.results[2].exposure.unauthenticated_read
    /\ aggregate.results[3].exposure.broad_register_access
    /\ aggregate.summary =
          [reachable |-> 2, unauthenticated_read |-> 1,
           broad_register_access |-> 1]

====
